---- MODULE Spec2Model ----
(***************************************************************************)
(* Model of the adaptive job-match engine of LLMyJobAgent:                 *)
(*   - AIJobMatcher (job_agent/ai_job_matcher.py): the learning store, its *)
(*     load/save as JSON, the outcome feedback loop, and the scoring,      *)
(*     ranking and filtering of jobs;                                      *)
(*   - BaseJobBoard.track_application and get_applications                 *)
(*     (src/job_boards/base.py): the application-rate governor, its log;   *)
(*   - AIJobApplicationAgent.search_and_apply_for_jobs (src/main.py): the  *)
(*     workflow that searches, ranks, filters, applies and records.        *)
(* Python dicts are modelled as functions whose DOMAIN is the set of keys  *)
(* present; Python lists as sequences; Python floats as IEEE-754 doubles.  *)
(***************************************************************************)
EXTENDS Integers, Sequences, FiniteSets, TLC

VARIABLES
    learning_file,   \* content of data/learning_data.json
    learning_data,   \* learning_data[m]: self.learning_data of matcher instance m
    pc,              \* pc[m]: position of instance m inside its current method
    call,            \* call[m]: arguments and pre-state of m's current/last call
    now,             \* logical instant returned by datetime.now() (learning log)
    history,         \* outcomes whose record_application_outcome call has started
    procs,           \* the AIJobMatcher instances that exist in this run
    crashes,         \* number of process crashes so far
    app_files,       \* app_files[b]: content of data/applications/<b>_applications.json
    today,           \* calendar date of the wall clock (day number)
    env_max,         \* value of the MAX_APPLICATIONS_PER_DAY environment setting
    track_ret,       \* observation of the last track_application call
    same_day_run,    \* same_day_run[b]: the calls made on b since its log was empty
    limit_days,      \* limit_days[b]: days on which b rejected a call at the ceiling
    agent            \* search_and_apply_for_jobs: its position, locals and calls made

vars == <<learning_file, learning_data, pc, call, now, history, procs, crashes,
          app_files, today, env_max, track_ret, same_day_run, limit_days, agent>>

learnVars == <<learning_file, learning_data, pc, call, now, history, procs, crashes>>
trackVars == <<app_files, today, env_max, track_ret, same_day_run, limit_days, agent>>

(***************************************************************************)
(* Bounds of the model.                                                    *)
(***************************************************************************)
MaxOutcomes == 6      \* record_application_outcome calls in SpecLearn
MaxStepOutcomes == 2  \* record_application_outcome calls in SpecCrash / SpecConc
MaxCrashes == 2       \* process crashes in SpecCrash
NumJobIds == 3        \* distinct job ids offered to track_application
MaxCeiling == 2       \* largest configured MAX_APPLICATIONS_PER_DAY
MaxDay == 2           \* calendar days 0..MaxDay
MaxStoreOutcomes == 3 \* record_application_outcome calls in SpecStore
MaxScoreOutcomes == 2   \* record_application_outcome calls in SpecScore
MaxJobs == 2            \* length of the job list handed to rank_jobs / filter_jobs
MaxFeedback == 2        \* record_application_outcome calls in SpecFeedback
MaxRun == 6             \* accepted applications in a row before SpecUncapped starts

(***************************************************************************)
(* Python floats.  Every value the learning store can hold is a multiple   *)
(* of 2^-55 below 2, so a double is kept exactly as the integer            *)
(* m = hi * 2^28 + lo in units of 2^-55, with a sign.  Sums are exact and  *)
(* then rounded to 53 significant bits, round-half-to-even, as the         *)
(* hardware does for `+=` and `-=`.                                        *)
(***************************************************************************)
B28 == 2^28

Float(neg, hi, lo) == [neg |-> neg, hi |-> hi, lo |-> lo]

F_Zero == Float(FALSE, 0, 0)
F_One == Float(FALSE, 2^27, 0)
\* the literal 0.5 = 2^54 units
F_Half == Float(FALSE, 2^26, 0)
\* the literal 0.1 = 0x1.999999999999ap-4 = 3602879701896397 units
F_Tenth == Float(FALSE, 13421772, 214748365)

F_IsZero(a) == a.hi = 0 /\ a.lo = 0

\* magnitude comparison |a| < |b|
F_MagLess(a, b) == a.hi < b.hi \/ (a.hi = b.hi /\ a.lo < b.lo)

\* a < b
F_Less(a, b) ==
    IF F_IsZero(a) /\ F_IsZero(b) THEN FALSE
    ELSE IF a.neg /\ ~b.neg THEN TRUE
    ELSE IF ~a.neg /\ b.neg THEN FALSE
    ELSE IF a.neg THEN F_MagLess(b, a)
    ELSE F_MagLess(a, b)

F_Leq(a, b) == ~F_Less(b, a)

\* units in the last place of a magnitude with high limb hi (values below 2.0)
F_Ulp(hi) ==
    IF hi < 2^25 THEN 1
    ELSE IF hi < 2^26 THEN 2
    ELSE IF hi < 2^27 THEN 4
    ELSE 8

\* round the exact magnitude (hi, lo) to the nearest double, ties to even
F_Round(neg, hi, lo) ==
    LET u == F_Ulp(hi)
        r == lo % u
        q == lo \div u
        up == (2 * r > u) \/ (2 * r = u /\ q % 2 = 1)
        lo1 == (lo - r) + (IF up THEN u ELSE 0)
    IN  IF lo1 >= B28 THEN Float(neg, hi + 1, lo1 - B28)
        ELSE Float(neg, hi, lo1)

\* exact |a| + |b| and |a| - |b| (for |a| >= |b|), as limb pairs
F_MagAdd(a, b) ==
    LET l == a.lo + b.lo
    IN  IF l >= B28 THEN <<a.hi + b.hi + 1, l - B28>> ELSE <<a.hi + b.hi, l>>

F_MagSub(a, b) ==
    IF a.lo >= b.lo THEN <<a.hi - b.hi, a.lo - b.lo>>
    ELSE <<a.hi - b.hi - 1, a.lo + B28 - b.lo>>

\* a + b
F_Add(a, b) ==
    IF a.neg = b.neg
    THEN LET s == F_MagAdd(a, b) IN F_Round(a.neg, s[1], s[2])
    ELSE IF F_MagLess(a, b)
         THEN LET d == F_MagSub(b, a) IN F_Round(b.neg, d[1], d[2])
         ELSE LET d == F_MagSub(a, b)
              IN  F_Round(IF d = <<0, 0>> THEN FALSE ELSE a.neg, d[1], d[2])

F_Neg(a) == IF F_IsZero(a) THEN a ELSE Float(~a.neg, a.hi, a.lo)

\* a - b
F_Sub(a, b) == F_Add(a, F_Neg(b))

\* Python's min(1, x) and max(0, x): the first argument wins unless the
\* second is strictly smaller (larger).  The ints 0 and 1 equal 0.0 and 1.0.
PyMin1(x) == IF F_Less(x, F_One) THEN x ELSE F_One
PyMax0(x) == IF F_Less(F_Zero, x) THEN x ELSE F_Zero

(***************************************************************************)
(* Natural numbers of any size, for the exact products, quotients and      *)
(* decimal expansions behind float arithmetic and float text: a sequence   *)
(* of limbs in base 2^14, least significant first, without leading zeros   *)
(* (zero is the empty sequence).                                           *)
(***************************************************************************)
B14 == 2^14

BigLimb(a, i) == IF 1 <= i /\ i <= Len(a) THEN a[i] ELSE 0

BigMaxLen(a, b) == IF Len(a) < Len(b) THEN Len(b) ELSE Len(a)

\* a without its leading zero limbs
BigTrim(a) ==
    LET nz == {i \in DOMAIN a : a[i] # 0}
    IN  IF nz = {} THEN <<>>
        ELSE SubSeq(a, 1, CHOOSE i \in nz : \A j \in nz : j <= i)

\* a natural number below 2^28
BigOfInt(n) == BigTrim(<<n % B14, n \div B14>>)

\* a < b
BigLess(a, b) ==
    \/ Len(a) < Len(b)
    \/ /\ Len(a) = Len(b)
       /\ \E i \in DOMAIN a :
             /\ a[i] < b[i]
             /\ \A j \in DOMAIN a : j > i => a[j] = b[j]

\* whether the limbs below i of a + b carry into limb i
BigCarry(a, b, i) ==
    \E j \in 1..(i - 1) :
        /\ BigLimb(a, j) + BigLimb(b, j) >= B14
        /\ \A k \in (j + 1)..(i - 1) : BigLimb(a, k) + BigLimb(b, k) = B14 - 1

\* a + b
BigAdd(a, b) ==
    BigTrim([i \in 1..(BigMaxLen(a, b) + 1) |->
                (BigLimb(a, i) + BigLimb(b, i) + (IF BigCarry(a, b, i) THEN 1 ELSE 0))
                    % B14])

\* whether the limbs below i of a - b borrow from limb i
BigBorrow(a, b, i) ==
    \E j \in 1..(i - 1) :
        /\ BigLimb(a, j) < BigLimb(b, j)
        /\ \A k \in (j + 1)..(i - 1) : BigLimb(a, k) = BigLimb(b, k)

\* a - b, for a >= b
BigSub(a, b) ==
    BigTrim([i \in 1..Len(a) |->
                (a[i] - BigLimb(b, i) - (IF BigBorrow(a, b, i) THEN 1 ELSE 0) + B14)
                    % B14])

\* a * k, for 0 <= k <= 2^14
BigMulSmall(a, k) ==
    BigAdd(<<>> \o [i \in 1..Len(a) |-> (a[i] * k) % B14],
           <<0>> \o [i \in 1..Len(a) |-> (a[i] * k) \div B14])

\* the limbs of a from position i up, taken modulo d (0 < d <= 2^16)
RECURSIVE BigRemFrom(_, _, _)
BigRemFrom(a, d, i) ==
    IF i > Len(a) THEN 0 ELSE (BigRemFrom(a, d, i + 1) * B14 + a[i]) % d

\* <<a div d, a mod d>>, for 0 < d <= 2^16
BigDivSmall(a, d) ==
    <<BigTrim([i \in 1..Len(a) |-> (BigRemFrom(a, d, i + 1) * B14 + a[i]) \div d]),
      BigRemFrom(a, d, 1)>>

\* a * 2^n
BigShl(a, n) ==
    IF a = <<>> THEN <<>>
    ELSE [i \in 1..(n \div 14) |-> 0] \o BigMulSmall(a, 2^(n % 14))

\* <<a div 2^n, whether a mod 2^n is not zero>>
BigShr(a, n) ==
    LET k == n \div 14
        b == 2^(n % 14)
    IN  <<BigTrim([i \in 1..(Len(a) - k) |->
                      (BigLimb(a, k + i) \div b)
                          + (BigLimb(a, k + i + 1) % b) * (B14 \div b)]),
          BigLimb(a, k + 1) % b # 0 \/ \E i \in 1..k : BigLimb(a, i) # 0>>

\* the number of bits of a
BigBitLen(a) ==
    IF a = <<>> THEN 0
    ELSE 14 * (Len(a) - 1)
           + (CHOOSE k \in 1..14 : 2^(k - 1) <= a[Len(a)] /\ a[Len(a)] < 2^k)

BigIsOdd(a) == a # <<>> /\ a[1] % 2 = 1

\* a * k^n
RECURSIVE BigMulPow(_, _, _)
BigMulPow(a, k, n) == IF n = 0 THEN a ELSE BigMulSmall(BigMulPow(a, k, n - 1), k)

(***************************************************************************)
(* Doubles of any magnitude, for products and for values read from text:   *)
(* the value is (hi * 2^28 + lo) * 2^exp with a 53-bit significand         *)
(* (2^52 <= hi * 2^28 + lo < 2^53), or zero (hi = lo = exp = 0).           *)
(* Every operation computes the exact result and rounds it once to the     *)
(* nearest double, ties to even.  Subnormals, infinities and NaN are out   *)
(* of reach of the values handled here.                                    *)
(***************************************************************************)
Double(neg, hi, lo, exp) == [neg |-> neg, hi |-> hi, lo |-> lo, exp |-> exp]

D_Zero == Double(FALSE, 0, 0, 0)

D_IsZero(x) == x.hi = 0 /\ x.lo = 0

\* the significand as a natural number
D_Sig(x) == BigTrim(<<x.lo % B14, x.lo \div B14, x.hi % B14, x.hi \div B14>>)

\* the double nearest to (a + f) * 2^e, where a is a natural number and
\* 0 <= f < 1 is zero unless `sticky`
D_Round(neg, a, e, sticky) ==
    IF a = <<>> THEN D_Zero
    ELSE LET len == BigBitLen(a)
         IN  IF len <= 53
             THEN LET m == BigShl(a, 53 - len)
                  IN  Double(neg, BigLimb(m, 3) + BigLimb(m, 4) * B14,
                             BigLimb(m, 1) + BigLimb(m, 2) * B14, e - (53 - len))
             ELSE LET s == len - 53
                      g == BigShr(a, s - 1)
                      q == BigShr(g[1], 1)[1]
                      up == BigIsOdd(g[1]) /\ (g[2] \/ sticky \/ BigIsOdd(q))
                      m0 == IF up THEN BigAdd(q, <<1>>) ELSE q
                      carry == BigBitLen(m0) > 53
                      m == IF carry THEN BigShr(m0, 1)[1] ELSE m0
                  IN  Double(neg, BigLimb(m, 3) + BigLimb(m, 4) * B14,
                             BigLimb(m, 1) + BigLimb(m, 2) * B14,
                             e + s + (IF carry THEN 1 ELSE 0))

\* |x| < |y|
D_MagLess(x, y) ==
    IF D_IsZero(y) THEN FALSE
    ELSE IF D_IsZero(x) THEN TRUE
    ELSE \/ x.exp < y.exp
         \/ x.exp = y.exp /\ (x.hi < y.hi \/ (x.hi = y.hi /\ x.lo < y.lo))

\* x < y
D_Less(x, y) ==
    IF D_IsZero(x) /\ D_IsZero(y) THEN FALSE
    ELSE IF D_IsZero(x) THEN ~y.neg
    ELSE IF D_IsZero(y) THEN x.neg
    ELSE IF x.neg /\ ~y.neg THEN TRUE
    ELSE IF ~x.neg /\ y.neg THEN FALSE
    ELSE IF x.neg THEN D_MagLess(y, x)
    ELSE D_MagLess(x, y)

\* x >= y
D_Geq(x, y) == ~D_Less(x, y)

\* the number of bits of an integer 0 <= n < 2^31
BitLen(n) == CHOOSE k \in 0..31 : n < 2^k /\ (k = 0 \/ n >= 2^(k - 1))

\* the double nearest to (hi * 2^28 + lo) * 2^e, for hi < 2^30 and lo < 2^28
D_Norm(neg, hi, lo, e) ==
    IF hi = 0 /\ lo = 0 THEN D_Zero
    ELSE LET len == IF hi > 0 THEN 28 + BitLen(hi) ELSE BitLen(lo)
         IN  IF len > 53
             THEN LET s == len - 53
                      r == lo % 2^s
                      qlo == lo \div 2^s + (hi % 2^s) * 2^(28 - s)
                      qhi == hi \div 2^s
                      up == 2 * r > 2^s \/ (2 * r = 2^s /\ qlo % 2 = 1)
                      mlo == IF up THEN (qlo + 1) % B28 ELSE qlo
                      mhi == IF up /\ qlo + 1 = B28 THEN qhi + 1 ELSE qhi
                  IN  IF mhi = 2^25 THEN Double(neg, 2^24, 0, e + s + 1)
                      ELSE Double(neg, mhi, mlo, e + s)
             ELSE LET n == 53 - len
                  IN  IF n >= 28 THEN Double(neg, lo * 2^(n - 28), 0, e - n)
                      ELSE Double(neg, hi * 2^n + lo \div 2^(28 - n),
                                  (lo % 2^(28 - n)) * 2^n, e - n)

\* x * y: the exact 106-bit product of the significands, by 14-bit limbs,
\* rounded once
D_Mul(x, y) ==
    IF D_IsZero(x) \/ D_IsZero(y) THEN D_Zero
    ELSE LET a0 == x.lo % B14
             a1 == x.lo \div B14
             a2 == x.hi % B14
             a3 == x.hi \div B14
             b0 == y.lo % B14
             b1 == y.lo \div B14
             b2 == y.hi % B14
             b3 == y.hi \div B14
             k0 == a0 * b0
             k1 == a0 * b1 + a1 * b0 + k0 \div B14
             k2 == a0 * b2 + a1 * b1 + a2 * b0 + k1 \div B14
             k3 == a0 * b3 + a1 * b2 + a2 * b1 + a3 * b0 + k2 \div B14
             k4 == a1 * b3 + a2 * b2 + a3 * b1 + k3 \div B14
             k5 == a2 * b3 + a3 * b2 + k4 \div B14
             k6 == a3 * b3 + k5 \div B14
             \* the product is q2 * 2^98 + q1 * 2^70 + q0 * 2^42 + (low 42 bits)
             q0 == (k3 % B14) + (k4 % B14) * B14
             q1 == (k5 % B14) + (k6 % B14) * B14
             q2 == k6 \div B14
             low == k0 % B14 # 0 \/ k1 % B14 # 0 \/ k2 % B14 # 0
             t == IF q2 >= 2^7 THEN 11 ELSE 10
             r == q0 % 2^t
             lo == q0 \div 2^t + (q1 % 2^t) * 2^(28 - t)
             hi == q1 \div 2^t + q2 * 2^(28 - t)
             up == \/ 2 * r > 2^t
                   \/ 2 * r = 2^t /\ (low \/ lo % 2 = 1)
             mlo == IF up THEN (lo + 1) % B28 ELSE lo
             mhi == IF up /\ lo + 1 = B28 THEN hi + 1 ELSE hi
             e == x.exp + y.exp + 42 + t
         IN  IF mhi = 2^25 THEN Double(x.neg # y.neg, 2^24, 0, e + 1)
             ELSE Double(x.neg # y.neg, mhi, mlo, e)

\* the significand of x times 8, then divided by 2^d; what the division
\* drops is kept as a last odd bit: <<hi, lo>>
D_Aligned(x, d) ==
    LET hi == x.hi * 8 + x.lo \div 2^25
        lo == (x.lo % 2^25) * 8
        shifted == IF d >= 57 THEN <<0, 0, TRUE>>
                   ELSE IF d >= 28
                   THEN <<0, hi \div 2^(d - 28), hi % 2^(d - 28) # 0 \/ lo # 0>>
                   ELSE <<hi \div 2^d, lo \div 2^d + (hi % 2^d) * 2^(28 - d),
                          lo % 2^d # 0>>
    IN  <<shifted[1],
          IF shifted[3] /\ shifted[2] % 2 = 0 THEN shifted[2] + 1 ELSE shifted[2]>>

\* x + y for exponents x.exp >= y.exp: the sum is formed with three extra
\* bits below the last place of x and rounded once
D_AddOrdered(x, y) ==
    LET a == D_Aligned(x, 0)
        b == D_Aligned(y, x.exp - y.exp)
    IN  IF x.neg = y.neg
        THEN D_Norm(x.neg, a[1] + b[1] + (a[2] + b[2]) \div B28,
                    (a[2] + b[2]) % B28, x.exp - 3)
        ELSE IF a[1] < b[1] \/ (a[1] = b[1] /\ a[2] < b[2])
        THEN D_Norm(y.neg, b[1] - a[1] - (IF b[2] < a[2] THEN 1 ELSE 0),
                    (b[2] - a[2] + B28) % B28, x.exp - 3)
        ELSE D_Norm(x.neg, a[1] - b[1] - (IF a[2] < b[2] THEN 1 ELSE 0),
                    (a[2] - b[2] + B28) % B28, x.exp - 3)

\* x + y
D_Add(x, y) ==
    IF D_IsZero(x) THEN y
    ELSE IF D_IsZero(y) THEN x
    ELSE IF x.exp >= y.exp THEN D_AddOrdered(x, y)
    ELSE D_AddOrdered(y, x)

\* the double with the value of a stored weight, and back (a weight is a
\* double that is a multiple of 2^-55)
D_OfFloat(w) == D_Norm(w.neg, w.hi, w.lo, -55)

F_OfDouble(x) ==
    LET m == IF x.exp >= -55 THEN BigShl(D_Sig(x), x.exp + 55)
             ELSE BigShr(D_Sig(x), -55 - x.exp)[1]
    IN  Float(x.neg /\ m # <<>>, BigLimb(m, 3) + BigLimb(m, 4) * B14 + BigLimb(m, 5) * B14 * B14,
              BigLimb(m, 1) + BigLimb(m, 2) * B14)

(***************************************************************************)
(* Numbers as JSON text.  json.dump writes a float with float.__repr__:    *)
(* the shortest string of decimal digits that reads back as the same       *)
(* double, and of those the one nearest to it; json.load reads a number    *)
(* with float(), which returns the double nearest to the decimal written.  *)
(* A number's text is kept as its sign, its significant digits d1..dn and  *)
(* the decimal exponent k of 0.d1...dn * 10^k.                             *)
(***************************************************************************)
NumberText(neg, digits, exp) == [neg |-> neg, digits |-> digits, exp |-> exp]

\* the state of the digit generation for a double v with neighbours v- and
\* v+: v = (r / s) * 10^k, (v+ - v) / 2 = (mp / s) * 10^k and
\* (v - v-) / 2 = (mm / s) * 10^k
ReprStart(x) ==
    IF x.hi = 2^24 /\ x.lo = 0
    THEN [r |-> BigShl(D_Sig(x), 2), s |-> BigShl(<<1>>, 2 - x.exp),
          mp |-> <<2>>, mm |-> <<1>>, k |-> 0]
    ELSE [r |-> BigShl(D_Sig(x), 1), s |-> BigShl(<<1>>, 1 - x.exp),
          mp |-> <<1>>, mm |-> <<1>>, k |-> 0]

\* whether v+ reaches 10^k; the end point itself reads back as v only when
\* the significand of v is even
ReprHighReaches(q, even) ==
    IF even THEN ~BigLess(BigAdd(q.r, q.mp), q.s) ELSE BigLess(q.s, BigAdd(q.r, q.mp))

ReprTimesTen(q) ==
    [q EXCEPT !.r = BigMulSmall(@, 10), !.mp = BigMulSmall(@, 10),
              !.mm = BigMulSmall(@, 10)]

\* the smallest k with v+ below 10^k
RECURSIVE ReprScaleUp(_, _)
ReprScaleUp(q, even) ==
    IF ReprHighReaches(q, even)
    THEN ReprScaleUp([q EXCEPT !.s = BigMulSmall(@, 10), !.k = @ + 1], even)
    ELSE q

RECURSIVE ReprScaleDown(_, _)
ReprScaleDown(q, even) ==
    IF ReprHighReaches(ReprTimesTen(q), even) THEN q
    ELSE ReprScaleDown([ReprTimesTen(q) EXCEPT !.k = @ - 1], even)

\* <<a div s, a mod s>> for a < 10 * s
RECURSIVE BigDivDigit(_, _)
BigDivDigit(a, s) ==
    IF BigLess(a, s) THEN <<0, a>>
    ELSE LET qr == BigDivDigit(BigSub(a, s), s) IN <<qr[1] + 1, qr[2]>>

\* digits are produced until what is left of v is below the distance to a
\* neighbour's midpoint
RECURSIVE ReprDigits(_, _)
ReprDigits(q, even) ==
    LET t == ReprTimesTen(q)
        dr == BigDivDigit(t.r, t.s)
        d == dr[1]
        r == dr[2]
        low == IF even THEN ~BigLess(t.mm, r) ELSE BigLess(r, t.mm)
        high == IF even THEN ~BigLess(BigAdd(r, t.mp), t.s)
                ELSE BigLess(t.s, BigAdd(r, t.mp))
    IN  IF ~low /\ ~high THEN <<d>> \o ReprDigits([t EXCEPT !.r = r], even)
        ELSE IF low /\ ~high THEN <<d>>
        ELSE IF high /\ ~low THEN <<d + 1>>
        ELSE IF BigLess(BigMulSmall(r, 2), t.s) THEN <<d>>
        ELSE <<d + 1>>

\* float.__repr__ of a double other than zero, of magnitude below 2^52
ShortestRepr(x) ==
    LET even == x.lo % 2 = 0
        q == ReprScaleDown(ReprScaleUp(ReprStart(x), even), even)
    IN  NumberText(x.neg, ReprDigits(q, even), q.k)

\* the digits d1..dn read as an integer, for n <= 6
RECURSIVE IntOfDigits(_)
IntOfDigits(digits) ==
    IF digits = <<>> THEN 0
    ELSE 10 * IntOfDigits(SubSeq(digits, 1, Len(digits) - 1)) + digits[Len(digits)]

\* the digits d1..dn read as a natural number, six digits at a time
RECURSIVE BigOfDigits(_)
BigOfDigits(digits) ==
    IF Len(digits) <= 6 THEN BigOfInt(IntOfDigits(digits))
    ELSE BigAdd(BigMulSmall(BigMulSmall(
                    BigOfDigits(SubSeq(digits, 1, Len(digits) - 6)), 1000), 1000),
                BigOfInt(IntOfDigits(SubSeq(digits, Len(digits) - 5, Len(digits)))))

\* <<a div 10^p, whether a remainder was dropped>>
RECURSIVE BigDivPow10(_, _, _)
BigDivPow10(a, p, sticky) ==
    IF p = 0 THEN <<a, sticky>>
    ELSE LET n == IF p >= 4 THEN 4 ELSE p
             qr == BigDivSmall(a, 10^n)
         IN  BigDivPow10(qr[1], p - n, sticky \/ qr[2] # 0)

\* float(text): the double nearest to the decimal written
ParseNumber(text) ==
    LET d == BigOfDigits(text.digits)
        p == Len(text.digits) - text.exp
    IN  IF p <= 0 THEN D_Round(text.neg, BigMulPow(d, 10, -p), 0, FALSE)
        ELSE LET t == 4 * p + 64
                 qs == BigDivPow10(BigShl(d, t), p, FALSE)
             IN  D_Round(text.neg, qs[1], -t, qs[2])

(***************************************************************************)
(* Python dict helpers.                                                    *)
(***************************************************************************)
EmptyDict == [k \in {} |-> F_Zero]

\* d.get(k, default)
PyGet(d, k, default) == IF k \in DOMAIN d THEN d[k] ELSE default

\* d[k] = v
PySet(d, k, v) == [x \in (DOMAIN d) \cup {k} |-> IF x = k THEN v ELSE d[x]]

(***************************************************************************)
(* Inputs of the matcher.  A job is a dict; the matcher reads 'company'    *)
(* with job['company'] and 'required_skills' with job.get(..., []), so     *)
(* the jobs offered all carry a company (the Job record of the data model) *)
(* and may lack required_skills.  One job lists a skill twice.             *)
(***************************************************************************)
MatcherJobs ==
    { [id |-> 1, title |-> "Backend Engineer", company |-> "acme",
       required_skills |-> <<"python", "sql">>],
      [id |-> 2, title |-> "Data Engineer", company |-> "globex",
       required_skills |-> <<"python", "python">>],
      [id |-> 3, title |-> "Office Manager", company |-> "acme"] }

(***************************************************************************)
(* The learning store: AIJobMatcher.learning_data and its file.            *)
(***************************************************************************)
\* the default state built by load_learning_data when no file exists
DefaultLearningData ==
    [successful_applications |-> <<>>,
     unsuccessful_applications |-> <<>>,
     skill_weights |-> EmptyDict,
     company_preferences |-> EmptyDict]

\* file contents: no file, a complete JSON document (named by the JSON value
\* it spells), or what a reader finds between open(path, 'w') and the end of
\* json.dump
NoFile == [kind |-> "absent"]
EmptyFile == [kind |-> "empty"]
PartialFile == [kind |-> "partial"]
JsonDump(data) == [kind |-> "json", data |-> data]
JsonLoad(file) == file.data

\* json.load raises JSONDecodeError on an empty or partially written file
LoadRaises(file) == file.kind \in {"empty", "partial"}

\* one weight update: += 0.1 or -= 0.1, then max(0, min(1, w))
AdjustNoClamp(w, success) ==
    IF success THEN F_Add(w, F_Tenth) ELSE F_Sub(w, F_Tenth)

\* an update that moves the weight by 0.2
AdjustByFifth(w, success) ==
    PyMax0(PyMin1(IF success THEN F_Add(w, F_Add(F_Tenth, F_Tenth))
                  ELSE F_Sub(w, F_Add(F_Tenth, F_Tenth))))

\* an update with the directions exchanged
AdjustInverted(w, success) ==
    PyMax0(PyMin1(IF success THEN F_Sub(w, F_Tenth) ELSE F_Add(w, F_Tenth)))

AdjustWeight(w, success) ==
    PyMax0(PyMin1(IF success THEN F_Add(w, F_Tenth) ELSE F_Sub(w, F_Tenth)))

\* the loop body of update_skill_weights for one skill
UpdateOneSkill(weights, skill, success) ==
    LET w0 == IF skill \notin DOMAIN weights THEN PySet(weights, skill, F_Half)
              ELSE weights
    IN  PySet(w0, skill, AdjustWeight(w0[skill], success))

RECURSIVE UpdateSkillLoop(_, _, _)
UpdateSkillLoop(weights, skills, success) ==
    IF skills = <<>> THEN weights
    ELSE UpdateSkillLoop(UpdateOneSkill(weights, Head(skills), success),
                         Tail(skills), success)

\* the loop of update_skill_weights run over the set of the job's skills
UpdateSkillsOncePerName(ld, job, success) ==
    LET skills == PyGet(job, "required_skills", <<>>)
        names == {skills[i] : i \in DOMAIN skills}
        w == ld.skill_weights
    IN  [ld EXCEPT !.skill_weights =
            [k \in (DOMAIN w) \cup names |->
                IF k \in names THEN AdjustWeight(PyGet(w, k, F_Half), success)
                ELSE w[k]]]

update_skill_weights(ld, job, success) ==
    [ld EXCEPT !.skill_weights =
        UpdateSkillLoop(ld.skill_weights, PyGet(job, "required_skills", <<>>), success)]

update_company_preferences(ld, company, success) ==
    LET p0 == IF company \notin DOMAIN ld.company_preferences
              THEN PySet(ld.company_preferences, company, F_Half)
              ELSE ld.company_preferences
    IN  [ld EXCEPT !.company_preferences =
            PySet(p0, company, AdjustWeight(p0[company], success))]

\* lines 75-84 of record_application_outcome: build the entry, append it
ApplicationData(job, success, timestamp) ==
    [job |-> job, success |-> success, timestamp |-> timestamp]

AppendOutcome(ld, job, success, timestamp) ==
    IF success
    THEN [ld EXCEPT !.successful_applications =
            Append(@, ApplicationData(job, success, timestamp))]
    ELSE [ld EXCEPT !.unsuccessful_applications =
            Append(@, ApplicationData(job, success, timestamp))]

\* the in-memory state at the end of record_application_outcome
OutcomeApplied(ld, job, success, timestamp) ==
    update_company_preferences(
        update_skill_weights(AppendOutcome(ld, job, success, timestamp), job, success),
        job["company"], success)

(***************************************************************************)
(* The learning store as JSON.  json.dump spells every weight as a number  *)
(* (the ints 0 and 1 the clamp leaves as "0" and "1", a float by its repr) *)
(* and json.load reads each number back; keys, strings, booleans and lists *)
(* are spelled as they are.                                                *)
(***************************************************************************)
\* json.dumps of one weight and json.loads of its text
WeightText(w) ==
    IF F_IsZero(w) THEN NumberText(FALSE, <<0>>, 1) ELSE ShortestRepr(D_OfFloat(w))

WeightOfText(text) == F_OfDouble(ParseNumber(text))

\* the weights that 0.5, += 0.1, -= 0.1 and the clamp can produce, with
\* their texts worked out once
RECURSIVE WeightClosure(_)
WeightClosure(S) ==
    LET T == S \cup {AdjustWeight(w, success) : w \in S, success \in BOOLEAN}
    IN  IF T = S \/ Cardinality(T) > 64 THEN T ELSE WeightClosure(T)

StoredWeights == WeightClosure({F_Half})

TextOfStored == {<<w, WeightText(w)>> : w \in StoredWeights}

StoredOfText == {<<p[2], WeightOfText(p[2])>> : p \in TextOfStored}

\* a float written without its last significant digits
FloatReprShort(w) ==
    LET text == WeightText(w)
    IN  IF Len(text.digits) <= 15 THEN text
        ELSE [text EXCEPT !.digits = SubSeq(@, 1, 15)]

\* the text json.dump writes for a weight
FloatRepr(w) ==
    IF \E p \in TextOfStored : p[1] = w
    THEN (CHOOSE p \in TextOfStored : p[1] = w)[2]
    ELSE WeightText(w)

\* the weight json.load returns for a number
FloatParse(text) ==
    IF \E p \in StoredOfText : p[1] = text
    THEN (CHOOSE p \in StoredOfText : p[1] = text)[2]
    ELSE WeightOfText(text)

\* the JSON value json.dump(self.learning_data, f) spells (line 32)
EncodeLearningData(ld) ==
    [ld EXCEPT !.skill_weights = [k \in DOMAIN @ |-> FloatRepr(@[k])],
               !.company_preferences = [k \in DOMAIN @ |-> FloatRepr(@[k])]]

\* the dict json.load(f) builds from it (line 19)
DecodeLearningData(value) ==
    [value EXCEPT !.skill_weights = [k \in DOMAIN @ |-> FloatParse(@[k])],
                  !.company_preferences = [k \in DOMAIN @ |-> FloatParse(@[k])]]

\* the file save_learning_data leaves, and what load_learning_data reads
DumpLearningData(ld) == JsonDump(EncodeLearningData(ld))

ParseLearningData(file) == DecodeLearningData(JsonLoad(file))

\* load_learning_data: the value assigned to self.learning_data
LoadLearningData(file) ==
    IF file.kind # "absent" THEN ParseLearningData(file) ELSE DefaultLearningData

(***************************************************************************)
(* Scoring: calculate_job_score, rank_jobs and filter_jobs.  The sentence   *)
(* encoder and cosine_similarity are a library; their result is a fixed    *)
(* number per pair of texts, taken here as a double.  Every function        *)
(* returns, next to its result, the objects it was handed as they are      *)
(* after the call (the learning data, the caller's job list).              *)
(***************************************************************************)
\* the literals 0.4, 0.4, 0.2 of lines 112-114, 0.5 of lines 105 and 108,
\* and 0.6 of line 132
SimilarityWeight == Double(FALSE, 26843545, 161061274, -54)
SkillWeight == Double(FALSE, 26843545, 161061274, -54)
CompanyWeight == Double(FALSE, 26843545, 161061274, -55)
DefaultWeightZero == Double(FALSE, 0, 0, 0)
DefaultWeight == Double(FALSE, 16777216, 0, -53)
DefaultMinScore == Double(FALSE, 20132659, 53687091, -53)

\* jobs handed to the scoring functions: two postings of the same job, a job
\* that lists a skill twice, a job without required_skills at a company no
\* outcome is ever recorded for, and a job whose required_skills is empty
ScoreJobs ==
    { [id |-> 1, title |-> "Backend Engineer", description |-> "APIs in Python and SQL",
       company |-> "acme", required_skills |-> <<"python", "sql">>],
      [id |-> 2, title |-> "Backend Engineer", description |-> "APIs in Python and SQL",
       company |-> "acme", required_skills |-> <<"python", "sql">>],
      [id |-> 3, title |-> "Data Engineer", description |-> "Python pipelines",
       company |-> "globex", required_skills |-> <<"python", "python">>],
      [id |-> 4, title |-> "Office Manager", description |-> "Run the office",
       company |-> "initech"],
      [id |-> 5, title |-> "Technical Writer", description |-> "Write the manuals",
       company |-> "acme", required_skills |-> <<>>] }

\* resume_data as AIResumeAnalyzer.analyze_resume returns it
Resumes ==
    { [skills |-> <<[skill |-> "python"], [skill |-> "sql"]>>,
       raw_text |-> "Python and SQL developer"],
      [skills |-> <<>>, raw_text |-> "Office administrator"] }

\* line 93: f"{job['title']} {job['description']}"
JobText(job) == <<job.title, job.description>>

\* lines 96-99: cosine similarity of the two embeddings
Similarity(job_text, resume_text) ==
    LET technical == resume_text = "Python and SQL developer"
    IN  CASE job_text[1] = "Backend Engineer" ->
                 IF technical THEN Double(FALSE, 16777216, 0, -54)
                 ELSE Double(FALSE, 16777216, 0, -55)
          [] job_text[1] = "Data Engineer" ->
                 IF technical THEN Double(FALSE, 25165824, 0, -53)
                 ELSE Double(FALSE, 16777216, 0, -55)
          [] job_text[1] = "Office Manager" ->
                 IF technical THEN Double(FALSE, 16777216, 0, -55)
                 ELSE Double(FALSE, 25165824, 0, -53)
          [] OTHER -> Double(FALSE, 16777216, 0, -53)

\* d.setdefault(key, 0.5): stores the default on first access
LookupWeightStoring(d, key) ==
    [value |-> IF key \in DOMAIN d THEN D_OfFloat(d[key]) ELSE DefaultWeight,
     dict |-> IF key \in DOMAIN d THEN d ELSE PySet(d, key, F_Half)]

\* self.learning_data[table].get(key, 0.5), with the dict as it is afterwards
LookupWeight(d, key) ==
    [value |-> IF key \in DOMAIN d THEN D_OfFloat(d[key]) ELSE DefaultWeight,
     dict |-> d]

\* job.get('required_skills', [])
RequiredSkillsOrPython(job) ==
    IF "required_skills" \in DOMAIN job THEN job.required_skills ELSE <<"python">>

RequiredSkills(job) ==
    IF "required_skills" \in DOMAIN job THEN job.required_skills ELSE <<>>

\* line 104: [s['skill'] for s in resume_data['skills']]
ResumeSkillNames(resume) == {resume.skills[i].skill : i \in DOMAIN resume.skills}

\* lines 103-105: the loop over the required skills, one `+=` per entry
RECURSIVE SkillScoreLoop(_, _, _, _)
SkillScoreLoop(weights, skills, resume, skill_score) ==
    IF skills = <<>>
    THEN [skill_score |-> skill_score, skill_weights |-> weights]
    ELSE IF Head(skills) \in ResumeSkillNames(resume)
         THEN LET w == LookupWeight(weights, Head(skills))
              IN  SkillScoreLoop(w.dict, Tail(skills), resume,
                                 D_Add(skill_score, w.value))
         ELSE SkillScoreLoop(weights, Tail(skills), resume, skill_score)

\* lines 111-115 with every term weighted alike
FinalScoreEqualWeights(similarity, skill_score, company_score) ==
    D_Add(D_Add(D_Mul(SimilarityWeight, similarity),
                D_Mul(SkillWeight, skill_score)),
          D_Mul(SkillWeight, company_score))

\* lines 111-115 followed by min(1.0, final_score)
FinalScoreCapped(similarity, skill_score, company_score) ==
    LET raw == D_Add(D_Add(D_Mul(SimilarityWeight, similarity),
                           D_Mul(SkillWeight, skill_score)),
                     D_Mul(CompanyWeight, company_score))
    IN  IF D_Less(Double(FALSE, 16777216, 0, -52), raw)
        THEN Double(FALSE, 16777216, 0, -52) ELSE raw

\* lines 111-115
FinalScore(similarity, skill_score, company_score) ==
    D_Add(D_Add(D_Mul(SimilarityWeight, similarity),
                D_Mul(SkillWeight, skill_score)),
          D_Mul(CompanyWeight, company_score))

\* the subscripts of calculate_job_score that raise KeyError: job['title'] and
\* job['description'] (line 93), resume_data['raw_text'] (line 94),
\* resume_data['skills'] (line 104, evaluated once per required skill, so
\* never for a job without required skills) and job['company'] (line 108)
ScoreKeyError(job, resume) ==
    \/ "title" \notin DOMAIN job
    \/ "description" \notin DOMAIN job
    \/ "raw_text" \notin DOMAIN resume
    \/ (RequiredSkills(job) # <<>> /\ "skills" \notin DOMAIN resume)
    \/ "company" \notin DOMAIN job

\* lines 111-117: the score returned, next to the learning data as the loop
\* and the company lookup left it
ScoreReturned(ld, similarity, skills, company) ==
    [score |-> FinalScore(similarity, skills.skill_score, company.value),
     learning_data |-> [ld EXCEPT !.skill_weights = skills.skill_weights,
                                  !.company_preferences = company.dict]]

\* calculate_job_score (lines 90-117)
calculate_job_score(ld, job, resume) ==
    ScoreReturned(ld, Similarity(JobText(job), resume.raw_text),
                  SkillScoreLoop(ld.skill_weights, RequiredSkills(job), resume, D_Zero),
                  LookupWeight(ld.company_preferences, job.company))

\* line 127: {**job, 'match_score': score}
ScoredJob(job, score) ==
    [k \in (DOMAIN job) \cup {"match_score"} |->
        IF k = "match_score" THEN score ELSE job[k]]

\* job['match_score'] = score; scored_jobs.append(job): the caller's dict is
\* the one annotated
AnnotateInPlace(job, score) ==
    [scored |-> ScoredJob(job, score), job |-> ScoredJob(job, score)]

\* lines 126-127: a new dict is appended, the caller's job stays as it is
Annotate(job, score) ==
    [scored |-> ScoredJob(job, score), job |-> job]

\* lines 126-127: the job scored as r is appended to scored_jobs
Appended(done, job, r) ==
    LET entry == Annotate(job, r.score)
    IN  [scored_jobs |-> Append(done.scored_jobs, entry.scored),
         jobs |-> Append(done.jobs, entry.job),
         learning_data |-> r.learning_data]

\* lines 123-127: the loop that scores every job of the list; `done` holds
\* scored_jobs, the caller's jobs passed so far and the learning data
RECURSIVE ScoreLoop(_, _, _)
ScoreLoop(done, jobs, resume) ==
    IF jobs = <<>> THEN done
    ELSE ScoreLoop(Appended(done, Head(jobs),
                            calculate_job_score(done.learning_data, Head(jobs), resume)),
                   Tail(jobs), resume)

Reverse(xs) == [i \in 1..Len(xs) |-> xs[Len(xs) + 1 - i]]

\* x goes behind every element that is not greater than it
RECURSIVE InsertByScore(_, _)
InsertByScore(sorted, x) ==
    IF sorted = <<>> THEN <<x>>
    ELSE IF D_Less(x.match_score, Head(sorted).match_score)
         THEN <<x>> \o sorted
         ELSE <<Head(sorted)>> \o InsertByScore(Tail(sorted), x)

\* list.sort: ascending by match_score, equal elements in their given order
RECURSIVE StableSort(_)
StableSort(xs) ==
    IF xs = <<>> THEN <<>>
    ELSE InsertByScore(StableSort(SubSeq(xs, 1, Len(xs) - 1)), xs[Len(xs)])

\* sorted(xs, key=...) without reverse=True
SortedAscending(xs) == StableSort(xs)

\* sorted(xs, key=...)[::-1]: descending, equal elements in reversed order
SortedThenReversed(xs) == Reverse(StableSort(xs))

\* line 130: sorted(xs, key=lambda x: x['match_score'], reverse=True), which
\* reverses the list, sorts it ascending and stable, and reverses it again
SortedDescending(xs) == Reverse(StableSort(Reverse(xs)))

\* line 130: the sorted list is returned
Ranked(scored) ==
    [result |-> SortedDescending(scored.scored_jobs),
     jobs |-> scored.jobs,
     learning_data |-> scored.learning_data]

\* rank_jobs (lines 119-130)
rank_jobs(ld, jobs, resume) ==
    Ranked(ScoreLoop([scored_jobs |-> <<>>, jobs |-> <<>>, learning_data |-> ld],
                     jobs, resume))

\* lines 123-124: rank_jobs calls calculate_job_score for each job outside
\* any try block, so the first KeyError leaves rank_jobs (and filter_jobs)
RankKeyError(jobs, resume) ==
    \E i \in DOMAIN jobs : ScoreKeyError(jobs[i], resume)

\* job['match_score'] > min_score
MeetsMinScoreStrict(job, min_score) == D_Less(min_score, job.match_score)

\* line 136: job['match_score'] >= min_score
MeetsMinScore(job, min_score) == D_Geq(job.match_score, min_score)

\* the min_score parameter: the argument if one is passed, else 0.6
NoMinScore == [passed |-> FALSE]
MinScore(arg) == IF arg.passed THEN arg.value ELSE DefaultMinScore

\* line 136: the jobs of the ranking that reach min_score
Filtered(ranked, min_score) ==
    [result |-> SelectSeq(ranked.result, LAMBDA job : MeetsMinScore(job, min_score)),
     jobs |-> ranked.jobs,
     learning_data |-> ranked.learning_data]

\* filter_jobs (lines 132-136)
filter_jobs(ld, jobs, resume, arg) ==
    Filtered(rank_jobs(ld, jobs, resume), MinScore(arg))

(***************************************************************************)
(* AIJobMatcher instances.  pc[m] is "start" before __init__ has loaded    *)
(* the file, "idle" between calls, and names the last completed statement  *)
(* while record_application_outcome runs.                                  *)
(***************************************************************************)
Unloaded == [unloaded |-> TRUE]
NoCall == [op |-> "none"]

\* __init__ / load_learning_data (lines 10-26); json.load may raise, and the
\* exception leaves __init__
Load(m) ==
    /\ m \in procs
    /\ pc[m] \in {"start", "load_failed"}
    /\ IF LoadRaises(learning_file)
       THEN /\ pc' = [pc EXCEPT ![m] = "load_failed"]
            /\ UNCHANGED learning_data
       ELSE /\ pc' = [pc EXCEPT ![m] = "idle"]
            /\ learning_data' = [learning_data EXCEPT ![m] = LoadLearningData(learning_file)]
    /\ call' = [call EXCEPT ![m] = [op |-> "load", observed |-> learning_file]]
    /\ UNCHANGED <<learning_file, now, history, trackVars, procs, crashes>>

\* lines 75-84: read the clock, build the entry, append it to one of the lists
RecordBegin(m, job, success) ==
    /\ m \in procs
    /\ pc[m] = "idle"
    /\ Len(history) < MaxStepOutcomes
    /\ learning_data' = [learning_data EXCEPT ![m] = AppendOutcome(@, job, success, now)]
    /\ call' = [call EXCEPT ![m] =
                   [op |-> "record", job |-> job, success |-> success,
                    timestamp |-> now, pre |-> learning_data[m], returned |-> FALSE,
                    index |-> Len(history) + 1]]
    /\ history' = Append(history, [job |-> job, success |-> success,
                                   timestamp |-> now, by |-> m, completed |-> FALSE])
    /\ now' = now + 1
    /\ pc' = [pc EXCEPT ![m] = "appended"]
    /\ UNCHANGED <<learning_file, trackVars, procs, crashes>>

\* line 86
RecordSkills(m) ==
    /\ m \in procs
    /\ pc[m] = "appended"
    /\ learning_data' = [learning_data EXCEPT ![m] =
                            update_skill_weights(@, call[m].job, call[m].success)]
    /\ pc' = [pc EXCEPT ![m] = "skills_updated"]
    /\ UNCHANGED <<learning_file, call, now, history, trackVars, procs, crashes>>

\* line 87
RecordCompany(m) ==
    /\ m \in procs
    /\ pc[m] = "skills_updated"
    /\ learning_data' = [learning_data EXCEPT ![m] =
                            update_company_preferences(@, call[m].job["company"],
                                                       call[m].success)]
    /\ pc' = [pc EXCEPT ![m] = "company_updated"]
    /\ UNCHANGED <<learning_file, call, now, history, trackVars, procs, crashes>>

\* save_learning_data, line 31: open(path, 'w') truncates the file in place
SaveOpen(m) ==
    /\ m \in procs
    /\ pc[m] = "company_updated"
    /\ learning_file' = EmptyFile
    /\ pc' = [pc EXCEPT ![m] = "file_open"]
    /\ UNCHANGED <<learning_data, call, now, history, trackVars, procs, crashes>>

\* line 32, json.dump under way: the buffered writer has flushed a prefix
SaveFlush(m) ==
    /\ m \in procs
    /\ pc[m] = "file_open"
    /\ learning_file = EmptyFile
    /\ learning_file' = PartialFile
    /\ UNCHANGED <<learning_data, pc, call, now, history, trackVars, procs, crashes>>

\* what the file holds once json.dump has finished and the file is closed: the
\* document, unless another writer completed a document after this writer's
\* truncation, in which case the bytes of the two may also be mixed
Written(file, data) ==
    IF file.kind = "json" THEN {DumpLearningData(data), PartialFile}
    ELSE {DumpLearningData(data)}

\* lines 32 and 88: json.dump completes, the with block closes the file,
\* record_application_outcome returns
SaveClose(m) ==
    /\ m \in procs
    /\ pc[m] = "file_open"
    /\ learning_file' \in Written(learning_file, learning_data[m])
    /\ call' = [call EXCEPT ![m].returned = TRUE]
    /\ history' = [history EXCEPT ![call[m].index].completed = TRUE]
    /\ pc' = [pc EXCEPT ![m] = "idle"]
    /\ UNCHANGED <<learning_data, now, trackVars, procs, crashes>>

\* record_application_outcome (lines 73-88) run without interruption
RecordApplicationOutcome(m, job, success) ==
    /\ m \in procs
    /\ pc[m] = "idle"
    /\ Len(history) < MaxOutcomes
    /\ LET ld == OutcomeApplied(learning_data[m], job, success, now)
       IN  /\ learning_data' = [learning_data EXCEPT ![m] = ld]
           /\ learning_file' = DumpLearningData(ld)
    /\ call' = [call EXCEPT ![m] =
                   [op |-> "record", job |-> job, success |-> success,
                    timestamp |-> now, pre |-> learning_data[m], returned |-> TRUE,
                    index |-> Len(history) + 1]]
    /\ history' = Append(history, [job |-> job, success |-> success,
                                   timestamp |-> now, by |-> m, completed |-> TRUE])
    /\ now' = now + 1
    /\ UNCHANGED <<pc, trackVars, procs, crashes>>

\* the process dies: its memory is lost, the file stays as it is
Crash(m) ==
    /\ m \in procs
    /\ pc[m] \notin {"start", "load_failed"}
    /\ crashes < MaxCrashes
    /\ learning_data' = [learning_data EXCEPT ![m] = Unloaded]
    /\ pc' = [pc EXCEPT ![m] = "start"]
    /\ call' = [call EXCEPT ![m] = [op |-> "crash"]]
    /\ crashes' = crashes + 1
    /\ UNCHANGED <<learning_file, now, history, trackVars, procs>>

\* save_learning_data (lines 28-32) called on its own and run to completion
SaveLearningData(m) ==
    /\ m \in procs
    /\ pc[m] = "idle"
    /\ learning_file' = DumpLearningData(learning_data[m])
    /\ call' = [call EXCEPT ![m] = [op |-> "save", pre |-> learning_data[m]]]
    /\ UNCHANGED <<learning_data, pc, now, history, trackVars, procs, crashes>>

\* load_learning_data (lines 15-26) called again on a constructed matcher
ReloadLearningData(m) ==
    /\ m \in procs
    /\ pc[m] = "idle"
    /\ IF LoadRaises(learning_file)
       THEN UNCHANGED learning_data
       ELSE learning_data' = [learning_data EXCEPT ![m] = LoadLearningData(learning_file)]
    /\ call' = [call EXCEPT ![m] =
                   [op |-> "reload", pre |-> learning_data[m],
                    observed |-> learning_file, raised |-> LoadRaises(learning_file),
                    after_save |-> call[m].op = "save"]]
    /\ UNCHANGED <<learning_file, pc, now, history, trackVars, procs, crashes>>

\* the job lists a caller passes: the postings a search returned, each once
\* (two postings of the same job and a job of another kind)
SearchResults == {job \in ScoreJobs : job.id \in {1, 2, 4}}

JobLists ==
    UNION { {jobs \in [1..n -> SearchResults] :
                \A i, j \in 1..n : jobs[i] = jobs[j] => i = j} : n \in 0..MaxJobs }

\* the min_score arguments a caller passes: none, or 0.5
MinScoreArgs == {NoMinScore, [passed |-> TRUE, value |-> Double(FALSE, 16777216, 0, -53)]}

\* a scoring call of m returns r: the matcher holds the learning data the
\* call left, and the call is kept with what it returned
Returns(m, observed, r) ==
    /\ learning_data' = [learning_data EXCEPT ![m] = r.learning_data]
    /\ call' = [call EXCEPT ![m] =
                   [k \in (DOMAIN observed) \cup {"result", "raised"} \cup
                          (IF "jobs" \in DOMAIN r THEN {"jobs_after"} ELSE {}) |->
                       CASE k = "result" -> IF "score" \in DOMAIN r THEN r.score ELSE r.result
                         [] k = "raised" -> FALSE
                         [] k = "jobs_after" -> r.jobs
                         [] OTHER -> observed[k]]]

\* a scoring call of m ends in KeyError: nothing is returned; no statement
\* that ran before the failing subscript assigns to the learning data
Raises(m, observed) ==
    /\ learning_data' = learning_data
    /\ call' = [call EXCEPT ![m] =
                   [k \in (DOMAIN observed) \cup {"raised"} |->
                       IF k = "raised" THEN TRUE ELSE observed[k]]]

\* one call of calculate_job_score (lines 90-117)
CalculateJobScore(m, job, resume) ==
    /\ m \in procs
    /\ pc[m] = "idle"
    /\ IF ScoreKeyError(job, resume)
       THEN Raises(m, [op |-> "score", job |-> job, resume |-> resume,
                       pre |-> learning_data[m], file |-> learning_file])
       ELSE Returns(m, [op |-> "score", job |-> job, resume |-> resume,
                        pre |-> learning_data[m], file |-> learning_file],
                    calculate_job_score(learning_data[m], job, resume))
    /\ UNCHANGED <<learning_file, pc, now, history, trackVars, procs, crashes>>

\* one call of rank_jobs (lines 119-130)
RankJobs(m, jobs, resume) ==
    /\ m \in procs
    /\ pc[m] = "idle"
    /\ IF RankKeyError(jobs, resume)
       THEN Raises(m, [op |-> "rank", jobs |-> jobs, resume |-> resume,
                       pre |-> learning_data[m], file |-> learning_file])
       ELSE Returns(m, [op |-> "rank", jobs |-> jobs, resume |-> resume,
                        pre |-> learning_data[m], file |-> learning_file],
                    rank_jobs(learning_data[m], jobs, resume))
    /\ UNCHANGED <<learning_file, pc, now, history, trackVars, procs, crashes>>

\* one call of filter_jobs (lines 132-136)
FilterJobs(m, jobs, resume, arg) ==
    /\ m \in procs
    /\ pc[m] = "idle"
    /\ IF RankKeyError(jobs, resume)
       THEN Raises(m, [op |-> "filter", jobs |-> jobs, resume |-> resume,
                       min_score |-> arg,
                       pre |-> learning_data[m], file |-> learning_file])
       ELSE Returns(m, [op |-> "filter", jobs |-> jobs, resume |-> resume,
                        min_score |-> arg,
                        pre |-> learning_data[m], file |-> learning_file],
                    filter_jobs(learning_data[m], jobs, resume, arg))
    /\ UNCHANGED <<learning_file, pc, now, history, trackVars, procs, crashes>>

(***************************************************************************)
(* The application-rate governor: BaseJobBoard.track_application.          *)
(* Each job-board class keeps its own file, named after the class.         *)
(***************************************************************************)
JobIds == 1..NumJobIds

\* a scraped job: every field a string that names the job it belongs to
TrackJob(i) ==
    [id |-> i, title |-> <<"title", i>>, company |-> <<"company", i>>,
     location |-> <<"location", i>>, url |-> <<"url", i>>,
     description |-> <<"description", i>>]

\* the dict d without key k
Without(d, k) == [x \in (DOMAIN d) \ {k} |-> d[x]]

\* the jobs offered to track_application: well-formed ones, one without 'id'
\* and one without 'location'
TrackJobs ==
    {TrackJob(i) : i \in JobIds}
        \cup {Without(TrackJob(1), "id"), Without(TrackJob(2), "location")}

ApplicationKeys == {"id", "title", "company", "location", "url"}

\* lines 329-336: the list read from the file; [] when the file is missing
\* or does not parse
LoadApplications(file) ==
    IF file.kind = "json" THEN JsonLoad(file) ELSE <<>>

\* a duplicate test that looks at the newest record only
AlreadyAppliedNewestOnly(applications, job) ==
    applications[Len(applications)]["id"] = job["id"]

\* line 339: any(app["id"] == job["id"] for app in applications); job["id"]
\* is evaluated once per record, so an empty list never touches the job
AlreadyApplied(applications, job) ==
    \E n \in DOMAIN applications : applications[n]["id"] = job["id"]

AlreadyAppliedRaises(applications, job) ==
    applications # <<>> /\ "id" \notin DOMAIN job

\* a count that never forgets: the records of every day
AllApplications(applications, day) == applications

\* line 346: the records whose date is `day`
TodayApplications(applications, day) ==
    SelectSeq(applications, LAMBDA app : app["date"] = day)

\* lines 353-361: the record appended; `date` is the second clock reading
Application(job, date) ==
    [id |-> job["id"], title |-> job["title"], company |-> job["company"],
     location |-> job["location"], url |-> job["url"],
     date |-> date, status |-> "applied"]

\* an except clause that lets the exception leave the method
TrackExceptReraises(file) ==
    [ret |-> FALSE, raised |-> TRUE, reason |-> "error", file |-> file]

\* the except clause, lines 371-373: log the error, return False
TrackExcept(file) == [ret |-> FALSE, raised |-> FALSE, reason |-> "error", file |-> file]

\* a limit test that lets one application too many through
LimitReachedOffByOne(count, max_applications) == count > max_applications

\* the daily limit test of line 348
LimitReached(count, max_applications) == count >= max_applications

\* a save that writes the new record alone
SavedOverwrites(applications, application) == JsonDump(<<application>>)

\* the new file content of lines 362-366
Saved(applications, application) == JsonDump(Append(applications, application))

\* track_application(job) on a board whose file is `file`, the clock reading
\* `day` at line 345 and `date` at line 359: the value returned, whether an
\* exception leaves the method, and the file afterwards
TrackResult(file, job, day, date, max_applications) ==
    LET applications == LoadApplications(file)
    IN  IF AlreadyAppliedRaises(applications, job) THEN TrackExcept(file)
        ELSE IF applications # <<>> /\ AlreadyApplied(applications, job)
        THEN [ret |-> FALSE, raised |-> FALSE, reason |-> "duplicate", file |-> file]
        ELSE IF LimitReached(Len(TodayApplications(applications, day)), max_applications)
        THEN [ret |-> FALSE, raised |-> FALSE, reason |-> "limit", file |-> file]
        ELSE IF ~(ApplicationKeys \subseteq DOMAIN job) THEN TrackExcept(file)
        ELSE [ret |-> TRUE, raised |-> FALSE, reason |-> "tracked",
              file |-> Saved(applications, Application(job, date))]

\* the calls made on one board since its log was empty: whether they all ran
\* within one calendar day on well-formed jobs with pairwise distinct ids,
\* how many there were and how many returned True
NoRun == [valid |-> TRUE, ids |-> {}, n |-> 0, trues |-> 0, day |-> 0]

RunAfter(run, job, day, date, ret) ==
    IF /\ run.valid
       /\ ApplicationKeys \subseteq DOMAIN job
       /\ job["id"] \notin run.ids
       /\ day = date
       /\ (run.n = 0 \/ run.day = day)
    THEN [valid |-> TRUE, ids |-> run.ids \cup {job["id"]}, n |-> run.n + 1,
          trues |-> run.trues + (IF ret THEN 1 ELSE 0), day |-> day]
    ELSE [run EXCEPT !.valid = FALSE]

\* one log file for every job-board class
OneApplicationsFile(b) == "indeedjobboard"

\* lines 324-326 and 379: the log file is named after the class of the board,
\* f"data/applications/{self.__class__.__name__.lower()}_applications.json";
\* app_files is keyed by that name
ApplicationsFile(b) == b

\* job_board.track_application(job) on an instance of board class b.  The
\* clock is read twice (lines 345 and 359); midnight may pass in between.
TrackApplication(b, job, date) ==
    /\ ApplicationsFile(b) \in DOMAIN app_files
    /\ date \in {today, today + 1}
    /\ date <= MaxDay
    /\ LET r == TrackResult(app_files[ApplicationsFile(b)], job, today, date, env_max)
       IN  /\ app_files' = [app_files EXCEPT ![ApplicationsFile(b)] = r.file]
           /\ track_ret' = [op |-> "track", board |-> b, job |-> job,
                            day |-> today, date |-> date, ret |-> r.ret,
                            raised |-> r.raised, reason |-> r.reason,
                            before |-> app_files[ApplicationsFile(b)]]
           /\ same_day_run' = [same_day_run EXCEPT ![b] =
                                  RunAfter(@, job, today, date, r.ret)]
           /\ limit_days' = [limit_days EXCEPT ![b] =
                                IF r.reason = "limit" THEN @ \cup {today} ELSE @]
    /\ today' = date
    /\ UNCHANGED <<env_max, agent, learnVars>>

\* midnight passes between two calls
Tick ==
    /\ today < MaxDay
    /\ today' = today + 1
    /\ UNCHANGED <<app_files, env_max, track_ret, same_day_run, limit_days, agent, learnVars>>

\* a filter that leaves out the records of the cutoff day itself
AfterCutoff(date, cutoff) == date > cutoff

\* line 393: datetime.fromisoformat(app['date']).date() >= cutoff_date
OnOrAfterCutoff(date, cutoff) == date >= cutoff

\* the days parameter: None unless an argument is passed
NoDays == [passed |-> FALSE]

\* get_applications(days) (lines 375-400) on a board whose file is `file`, on
\* day `day`: [] when the file is missing (lines 381-382) or does not parse
\* (lines 398-400), else the list read, cut to the records dated on or after
\* day - days when days is given
get_applications(file, days, day) ==
    IF file.kind # "json" THEN <<>>
    ELSE IF days.passed
    THEN SelectSeq(JsonLoad(file),
                   LAMBDA app : OnOrAfterCutoff(app["date"], day - days.value))
    ELSE JsonLoad(file)

\* job_board.get_applications(days) on an instance of board class b
GetApplications(b, days) ==
    /\ ApplicationsFile(b) \in DOMAIN app_files
    /\ track_ret' = [op |-> "get", board |-> b, days |-> days, day |-> today,
                     result |-> get_applications(app_files[ApplicationsFile(b)],
                                                 days, today)]
    /\ UNCHANGED <<app_files, today, env_max, same_day_run, limit_days, agent, learnVars>>

(***************************************************************************)
(* The workflow: AIJobApplicationAgent.search_and_apply_for_jobs (main.py, *)
(* lines 54-101).  agent.pc is "board" before the body of the loop of line *)
(* 62 runs for job_boards[agent.board], "jobs" inside the loop of line 72  *)
(* and "done" after the method has returned; agent.trace lists the calls   *)
(* made on the job boards and on the matcher, in order.                    *)
(***************************************************************************)
NoAgent == [pc |-> "none"]

\* lines 29-33: the boards, by the name of their class in lower case
job_boards == <<"linkedinjobboard", "indeedjobboard", "dicejobboard">>

\* self.resume_data
AgentResume == CHOOSE resume \in Resumes : resume.skills # <<>>

\* what job_board.search_jobs does (line 65): it raises, or returns postings
SearchPool == {job \in ScoreJobs : job.id \in {1, 3, 4}}

SearchOutcomes ==
    {[raised |-> TRUE]} \cup
    UNION { {[raised |-> FALSE, jobs |-> jobs] :
                jobs \in {js \in [1..n -> SearchPool] :
                             \A i, j \in 1..n : js[i] = js[j] => i = j}} :
            n \in 0..MaxJobs }

\* what job_board.apply_for_job does (line 74): it raises, or returns whether
\* the application was submitted
ApplyOutcomes ==
    {[raised |-> TRUE]} \cup {[raised |-> FALSE, success |-> r] : r \in BOOLEAN}

\* lines 90-92: the board is given up, the loop goes on with the next board
BoardSkipped(a) ==
    [a EXCEPT !.pc = "board", !.board = @ + 1, !.jobs = <<>>,
              !.trace = Append(@, [op |-> "search", board |-> a.board, raised |-> TRUE])]

\* lines 65-72: the filtered ranking is what the inner loop runs over
Searched(a, filtered) ==
    [a EXCEPT !.pc = IF filtered.result = <<>> THEN "board" ELSE "jobs",
              !.board = IF filtered.result = <<>> THEN @ + 1 ELSE @,
              !.jobs = filtered.result,
              !.trace = Append(@, [op |-> "search", board |-> a.board, raised |-> FALSE,
                                   found |-> [n \in DOMAIN filtered.result |->
                                                 filtered.result[n].id]])]

\* line 69 applied to the result of line 68
FilterRanked(ranked, resume) ==
    filter_jobs(ranked.learning_data, ranked.result, resume, NoMinScore)

SearchReturns(m, filtered) ==
    /\ agent' = Searched(agent, filtered)
    /\ learning_data' = [learning_data EXCEPT ![m] = filtered.learning_data]

\* lines 62-69 and 90-92: one board is searched and its jobs are ranked and
\* filtered; any exception skips the board
SearchBoard(m, found) ==
    /\ agent.pc = "board"
    /\ agent.board \in DOMAIN job_boards
    /\ m \in procs
    /\ pc[m] = "idle"
    /\ IF found.raised \/ RankKeyError(found.jobs, AgentResume)
       THEN /\ agent' = BoardSkipped(agent)
            /\ UNCHANGED learning_data
       ELSE SearchReturns(m, FilterRanked(rank_jobs(learning_data[m], found.jobs,
                                                    AgentResume),
                                          AgentResume))
    /\ UNCHANGED <<learning_file, pc, call, now, history, procs, crashes,
                   app_files, today, env_max, track_ret, same_day_run, limit_days>>

\* an except clause that gives up the rest of the board's jobs
OnApplyErrorBreaks(jobs) == <<>>

\* lines 86-88: log the error, continue with the next job
OnApplyError(jobs) == Tail(jobs)

\* lines 75-79: {**job, 'success': success, 'timestamp': ...}
AgentApplication(job, success, timestamp) ==
    [k \in (DOMAIN job) \cup {"success", "timestamp"} |->
        CASE k = "success" -> success
          [] k = "timestamp" -> timestamp
          [] OTHER -> job[k]]

\* the loop of line 72 after one job: the next job, or the next board
AfterJob(a, rest, events, applications) ==
    [a EXCEPT !.pc = IF rest = <<>> THEN "board" ELSE "jobs",
              !.board = IF rest = <<>> THEN @ + 1 ELSE @,
              !.jobs = rest,
              !.applications = applications,
              !.trace = @ \o events]

\* lines 72-88: one pass of the inner loop.  apply_for_job is called; if it
\* returns, the application is appended and its outcome recorded by the
\* matcher (lines 81-84), which saves the learning data; if it raises, the
\* job is skipped
ApplyJob(m, outcome) ==
    /\ agent.pc = "jobs"
    /\ m \in procs
    /\ pc[m] = "idle"
    /\ LET job == Head(agent.jobs)
           applied == [op |-> "apply", board |-> agent.board, job |-> job.id,
                       day |-> today, raised |-> outcome.raised,
                       success |-> ~outcome.raised /\ outcome.success]
       IN  IF outcome.raised
           THEN /\ agent' = AfterJob(agent, OnApplyError(agent.jobs), <<applied>>,
                                     agent.applications)
                /\ UNCHANGED <<learning_data, learning_file, history, now>>
           ELSE /\ agent' = AfterJob(agent, Tail(agent.jobs),
                                     <<applied, [op |-> "record", job |-> job.id,
                                                 success |-> outcome.success]>>,
                                     Append(agent.applications,
                                            AgentApplication(job, outcome.success, now)))
                /\ learning_data' = [learning_data EXCEPT ![m] =
                                        OutcomeApplied(@, job, outcome.success, now)]
                /\ learning_file' = DumpLearningData(learning_data'[m])
                /\ history' = Append(history, [job |-> job, success |-> outcome.success,
                                               timestamp |-> now, by |-> m,
                                               completed |-> TRUE])
                /\ now' = now + 1
    /\ UNCHANGED <<pc, call, procs, crashes,
                   app_files, today, env_max, track_ret, same_day_run, limit_days>>

\* lines 94-98: every board was handled; the summary is sent and the list of
\* applications returned
AgentReturns ==
    /\ agent.pc = "board"
    /\ agent.board \notin DOMAIN job_boards
    /\ agent' = [agent EXCEPT !.pc = "done"]
    /\ UNCHANGED <<learnVars, app_files, today, env_max, track_ret, same_day_run,
                   limit_days>>

(***************************************************************************)
(* Specifications.                                                         *)
(***************************************************************************)
TrackBoards == {"indeedjobboard"}

NoMatcher ==
    /\ procs = {}
    /\ learning_file = NoFile
    /\ learning_data = [m \in {} |-> Unloaded]
    /\ pc = [m \in {} |-> "start"]
    /\ call = [m \in {} |-> NoCall]
    /\ now = 0
    /\ history = <<>>
    /\ crashes = 0

NoBoard ==
    /\ app_files = [b \in {} |-> NoFile]
    /\ today = 0
    /\ env_max = MaxCeiling
    /\ track_ret = NoCall
    /\ same_day_run = [b \in {} |-> NoRun]
    /\ limit_days = [b \in {} |-> {}]
    /\ agent = NoAgent

\* one job board, its log not yet created, MAX_APPLICATIONS_PER_DAY configured
InitTrack ==
    /\ NoMatcher
    /\ app_files = [b \in TrackBoards |-> NoFile]
    /\ today = 0
    /\ env_max \in 1..MaxCeiling
    /\ track_ret = NoCall
    /\ same_day_run = [b \in TrackBoards |-> NoRun]
    /\ limit_days = [b \in TrackBoards |-> {}]
    /\ agent = NoAgent

NextTrack ==
    \/ \E b \in TrackBoards, job \in TrackJobs, date \in 0..MaxDay :
          TrackApplication(b, job, date)
    \/ Tick

SpecTrack == InitTrack /\ [][NextTrack]_vars

\* one matcher, constructed on a first run (no learning file yet)
InitLearn ==
    /\ NoBoard
    /\ procs = {1}
    /\ learning_file = NoFile
    /\ learning_data = [m \in {1} |-> DefaultLearningData]
    /\ pc = [m \in {1} |-> "idle"]
    /\ call = [m \in {1} |-> NoCall]
    /\ now = 0
    /\ history = <<>>
    /\ crashes = 0

NextLearn ==
    \E m \in procs, job \in MatcherJobs, success \in BOOLEAN :
        RecordApplicationOutcome(m, job, success)

SpecLearn == InitLearn /\ [][NextLearn]_vars

\* one matcher process that may die at any point and be started again
InitCrash ==
    /\ NoBoard
    /\ procs = {1}
    /\ learning_file = NoFile
    /\ learning_data = [m \in {1} |-> Unloaded]
    /\ pc = [m \in {1} |-> "start"]
    /\ call = [m \in {1} |-> NoCall]
    /\ now = 0
    /\ history = <<>>
    /\ crashes = 0

NextCrash ==
    \/ \E m \in procs : Load(m)
    \/ \E m \in procs, job \in MatcherJobs, success \in BOOLEAN :
          RecordBegin(m, job, success)
    \/ \E m \in procs : RecordSkills(m)
    \/ \E m \in procs : RecordCompany(m)
    \/ \E m \in procs : SaveOpen(m)
    \/ \E m \in procs : SaveFlush(m)
    \/ \E m \in procs : SaveClose(m)
    \/ \E m \in procs : Crash(m)

SpecCrash == InitCrash /\ [][NextCrash]_vars

\* two matchers (two workflows, or two processes) sharing the learning file
InitConc ==
    /\ NoBoard
    /\ procs = {1, 2}
    /\ learning_file = NoFile
    /\ learning_data = [m \in {1, 2} |-> Unloaded]
    /\ pc = [m \in {1, 2} |-> "start"]
    /\ call = [m \in {1, 2} |-> NoCall]
    /\ now = 0
    /\ history = <<>>
    /\ crashes = 0

NextConc ==
    \/ \E m \in procs : Load(m)
    \/ \E m \in procs, job \in MatcherJobs, success \in BOOLEAN :
          RecordBegin(m, job, success)
    \/ \E m \in procs : RecordSkills(m)
    \/ \E m \in procs : RecordCompany(m)
    \/ \E m \in procs : SaveOpen(m)
    \/ \E m \in procs : SaveFlush(m)
    \/ \E m \in procs : SaveClose(m)

SpecConc == InitConc /\ [][NextConc]_vars

\* one matcher whose store is saved and loaded again between outcomes
NextStore ==
    \/ \E m \in procs, job \in MatcherJobs, success \in BOOLEAN :
          Len(history) < MaxStoreOutcomes /\ RecordApplicationOutcome(m, job, success)
    \/ \E m \in procs : SaveLearningData(m)
    \/ \E m \in procs : ReloadLearningData(m)

SpecStore == InitLearn /\ [][NextStore]_vars

\* one matcher constructed where the learning file is missing or was left
\* half-written by an interrupted save, then scoring single jobs and learning
InitScore ==
    /\ NoBoard
    /\ procs = {1}
    /\ learning_file \in {NoFile, PartialFile}
    /\ learning_data = [m \in {1} |-> Unloaded]
    /\ pc = [m \in {1} |-> "start"]
    /\ call = [m \in {1} |-> NoCall]
    /\ now = 0
    /\ history = <<>>
    /\ crashes = 0

NextScore ==
    \/ \E m \in procs : Load(m)
    \/ \E m \in procs, job \in MatcherJobs, success \in BOOLEAN :
          Len(history) < MaxScoreOutcomes /\ RecordApplicationOutcome(m, job, success)
    \/ \E m \in procs, job \in ScoreJobs, resume \in Resumes :
          CalculateJobScore(m, job, resume)

SpecScore == InitScore /\ [][NextScore]_vars

\* the learning files earlier runs of the program have left: none, the file
\* after one accepted application, the file after a rejected one as well
EarlierRuns ==
    LET job(i) == CHOOSE j \in MatcherJobs : j.id = i
        first == OutcomeApplied(DefaultLearningData, job(1), TRUE, 0)
        second == OutcomeApplied(first, job(2), FALSE, 1)
    IN  {NoFile, DumpLearningData(first), DumpLearningData(second)}

\* one matcher constructed on such a file, then scoring, ranking and
\* filtering the results of searches
InitRank ==
    /\ NoBoard
    /\ procs = {1}
    /\ learning_file \in EarlierRuns
    /\ learning_data = [m \in {1} |-> Unloaded]
    /\ pc = [m \in {1} |-> "start"]
    /\ call = [m \in {1} |-> NoCall]
    /\ now = 2
    /\ history = <<>>
    /\ crashes = 0

NextRank ==
    \/ \E m \in procs : Load(m)
    \/ \E m \in procs, job \in ScoreJobs, resume \in Resumes :
          CalculateJobScore(m, job, resume)
    \/ \E m \in procs, jobs \in JobLists, resume \in Resumes :
          RankJobs(m, jobs, resume)
    \/ \E m \in procs, jobs \in JobLists, resume \in Resumes, arg \in MinScoreArgs :
          FilterJobs(m, jobs, resume, arg)

SpecRank == InitRank /\ [][NextRank]_vars

\* inputs with a part missing: postings scraped without a title, without a
\* description or without a company, and resume data without a skills list
MalformedJobs ==
    LET job(i) == CHOOSE j \in ScoreJobs : j.id = i
    IN  {Without(job(1), "title"), Without(job(3), "description"),
         Without(job(4), "company")}

ResumesWithoutSkills == {[raw_text |-> "Python and SQL developer"]}

\* the job lists of a search in which a posting may be malformed
MixedResults ==
    {job \in ScoreJobs : job.id \in {1, 4}}
        \cup {job \in MalformedJobs : "company" \notin DOMAIN job}

MixedJobLists ==
    UNION { {jobs \in [1..n -> MixedResults] :
                \A i, j \in 1..n : jobs[i] = jobs[j] => i = j} : n \in 0..MaxJobs }

\* one matcher scoring and ranking whatever the scrapers and the resume
\* analyzer hand it
NextInputs ==
    \/ \E m \in procs : Load(m)
    \/ \E m \in procs, job \in ScoreJobs \cup MalformedJobs,
          resume \in Resumes \cup ResumesWithoutSkills :
          CalculateJobScore(m, job, resume)
    \/ \E m \in procs, jobs \in MixedJobLists,
          resume \in Resumes \cup ResumesWithoutSkills :
          RankJobs(m, jobs, resume)

SpecInputs == InitRank /\ [][NextInputs]_vars

\* a posting that requires three skills and a resume that lists all three
ThreeSkillJob ==
    [id |-> 6, title |-> "Platform Engineer", description |-> "Python, SQL and Docker",
     company |-> "acme", required_skills |-> <<"python", "sql", "docker">>]

ThreeSkillResume ==
    [skills |-> <<[skill |-> "python"], [skill |-> "sql"], [skill |-> "docker"]>>,
     raw_text |-> "Python and SQL developer"]

\* the learning data after k applications to such postings were accepted
RECURSIVE AcceptedRun(_)
AcceptedRun(k) ==
    IF k = 0 THEN DefaultLearningData
    ELSE OutcomeApplied(AcceptedRun(k - 1), ThreeSkillJob, TRUE, k - 1)

AcceptedRuns == {NoFile} \cup {DumpLearningData(AcceptedRun(k)) : k \in 1..MaxRun}

SkilledResults == {ThreeSkillJob} \cup {job \in ScoreJobs : job.id \in {1, 4}}

SkilledJobLists ==
    UNION { {jobs \in [1..n -> SkilledResults] :
                \A i, j \in 1..n : jobs[i] = jobs[j] => i = j} : n \in 0..MaxJobs }

\* one matcher constructed after a run of accepted applications, then
\* scoring and ranking
InitUncapped ==
    /\ NoBoard
    /\ procs = {1}
    /\ learning_file \in AcceptedRuns
    /\ learning_data = [m \in {1} |-> Unloaded]
    /\ pc = [m \in {1} |-> "start"]
    /\ call = [m \in {1} |-> NoCall]
    /\ now = MaxRun
    /\ history = <<>>
    /\ crashes = 0

NextUncapped ==
    \/ \E m \in procs : Load(m)
    \/ \E m \in procs, job \in SkilledResults, resume \in Resumes \cup {ThreeSkillResume} :
          CalculateJobScore(m, job, resume)
    \/ \E m \in procs, jobs \in SkilledJobLists, resume \in Resumes \cup {ThreeSkillResume} :
          RankJobs(m, jobs, resume)

SpecUncapped == InitUncapped /\ [][NextUncapped]_vars

\* the postings the agent applies to and scores again afterwards
FeedbackJobs == {job \in ScoreJobs : job.id \in {1, 3, 4, 5}}

\* one matcher on a first run, recording outcomes and scoring in between
NextFeedback ==
    \/ \E m \in procs, job \in FeedbackJobs, success \in BOOLEAN :
          Len(history) < MaxFeedback /\ RecordApplicationOutcome(m, job, success)
    \/ \E m \in procs, job \in FeedbackJobs, resume \in Resumes :
          CalculateJobScore(m, job, resume)

SpecFeedback == InitLearn /\ [][NextFeedback]_vars

\* one matcher whose caller ranks the results of a search and then hands the
\* ranking on: to rank_jobs again, or to filter_jobs as main.py does (lines
\* 68-69 of search_and_apply_for_jobs)
NextRerank ==
    \/ \E m \in procs : Load(m)
    \/ \E m \in procs, jobs \in JobLists, resume \in Resumes :
          RankJobs(m, jobs, resume)
    \/ \E m \in procs :
          /\ call[m].op = "rank"
          /\ RankJobs(m, call[m].result, call[m].resume)
    \/ \E m \in procs, arg \in MinScoreArgs :
          /\ call[m].op = "rank"
          /\ FilterJobs(m, call[m].result, call[m].resume, arg)

SpecRerank == InitRank /\ [][NextRerank]_vars

\* one job board whose log is written by track_application and read by
\* get_applications, with and without a days argument
DaysArgs == {NoDays} \cup {[passed |-> TRUE, value |-> n] : n \in 0..MaxDay}

NextApplications ==
    \/ \E b \in TrackBoards, job \in {TrackJob(1), TrackJob(2)}, date \in 0..MaxDay :
          TrackApplication(b, job, date)
    \/ Tick
    \/ \E b \in TrackBoards, days \in DaysArgs : GetApplications(b, days)

SpecApplications == InitTrack /\ [][NextApplications]_vars

\* two of the job-board classes main.py constructs, each instance tracking
\* its applications; their logs not yet created
Boards == {"linkedinjobboard", "indeedjobboard"}

InitBoards ==
    /\ NoMatcher
    /\ app_files = [b \in Boards |-> NoFile]
    /\ today = 0
    /\ env_max \in 1..MaxCeiling
    /\ track_ret = NoCall
    /\ same_day_run = [b \in Boards |-> NoRun]
    /\ limit_days = [b \in Boards |-> {}]
    /\ agent = NoAgent

NextBoards ==
    \/ \E b \in Boards, job \in {TrackJob(1), TrackJob(2)}, date \in 0..MaxDay :
          TrackApplication(b, job, date)
    \/ Tick

SpecBoards == InitBoards /\ [][NextBoards]_vars

\* one call of search_and_apply_for_jobs on a first run: the matcher holds the
\* default learning data, no board has an application log yet
InitAgent ==
    /\ procs = {1}
    /\ learning_file = NoFile
    /\ learning_data = [m \in {1} |-> DefaultLearningData]
    /\ pc = [m \in {1} |-> "idle"]
    /\ call = [m \in {1} |-> NoCall]
    /\ now = 0
    /\ history = <<>>
    /\ crashes = 0
    /\ app_files = [n \in {job_boards[i] : i \in DOMAIN job_boards} |-> NoFile]
    /\ today = 0
    /\ env_max \in 1..MaxCeiling
    /\ track_ret = NoCall
    /\ same_day_run = [n \in {job_boards[i] : i \in DOMAIN job_boards} |-> NoRun]
    /\ limit_days = [n \in {job_boards[i] : i \in DOMAIN job_boards} |-> {}]
    /\ agent = [pc |-> "board", board |-> 1, jobs |-> <<>>, applications |-> <<>>,
                trace |-> <<>>]

NextAgent ==
    \/ \E m \in procs, found \in SearchOutcomes : SearchBoard(m, found)
    \/ \E m \in procs, outcome \in ApplyOutcomes : ApplyJob(m, outcome)
    \/ AgentReturns

SpecAgent == InitAgent /\ [][NextAgent]_vars

Spec == SpecLearn

(***************************************************************************)
(* Properties of the learning store, checked under SpecLearn.              *)
(***************************************************************************)
InUnitInterval(w) == F_Leq(F_Zero, w) /\ F_Leq(w, F_One)

WeightsOf(ld) ==
    {ld.skill_weights[k] : k \in DOMAIN ld.skill_weights}
        \cup {ld.company_preferences[k] : k \in DOMAIN ld.company_preferences}

\* C1: after any sequence of record_application_outcome calls, every skill
\* weight and company preference in the store (in memory and in the persisted
\* snapshot) lies in the closed interval [0,1].
C1_WeightsClamped ==
    /\ \A m \in procs :
          pc[m] = "idle" => \A w \in WeightsOf(learning_data[m]) : InUnitInterval(w)
    /\ learning_file.kind = "json" =>
          \A w \in WeightsOf(ParseLearningData(learning_file)) : InUnitInterval(w)

\* C1 witness: a success was recorded for a company whose preference plus 0.1
\* exceeds 1, and the preference stored is exactly 1.
C1_Witness ==
    \E m \in procs :
        /\ call[m].op = "record" /\ call[m].returned /\ call[m].success
        /\ LET c == call[m].job["company"]
               pre == call[m].pre.company_preferences
           IN  /\ c \in DOMAIN pre
               /\ F_Less(F_One, F_Add(pre[c], F_Tenth))
               /\ learning_data[m].company_preferences[c] = F_One

RECURSIVE AdjustTimes(_, _, _)
AdjustTimes(w, n, success) ==
    IF n = 0 THEN w ELSE AdjustTimes(AdjustWeight(w, success), n - 1, success)

SeqRange(q) == {q[i] : i \in DOMAIN q}

Occurrences(q, x) == Cardinality({i \in DOMAIN q : q[i] = x})

\* the effects C7 lists, of a completed call with pre-state `pre` and
\* post-state `ld`
ExactEffects(pre, ld, job, success, timestamp) ==
    LET skills == PyGet(job, "required_skills", <<>>)
        entry == [job |-> job, success |-> success, timestamp |-> timestamp]
        touched == IF success THEN "successful_applications"
                   ELSE "unsuccessful_applications"
        other == IF success THEN "unsuccessful_applications"
                 ELSE "successful_applications"
    IN  /\ ld[touched] = Append(pre[touched], entry)
        /\ ld[other] = pre[other]
        /\ DOMAIN ld.skill_weights = (DOMAIN pre.skill_weights) \cup SeqRange(skills)
        /\ \A k \in DOMAIN ld.skill_weights :
              /\ ld.skill_weights[k] =
                    AdjustTimes(PyGet(pre.skill_weights, k, F_Half),
                                Occurrences(skills, k), success)
              /\ k \in SeqRange(skills) =>
                    IF success
                    THEN F_Leq(PyGet(pre.skill_weights, k, F_Half), ld.skill_weights[k])
                    ELSE F_Leq(ld.skill_weights[k], PyGet(pre.skill_weights, k, F_Half))
        /\ DOMAIN ld.company_preferences =
              (DOMAIN pre.company_preferences) \cup {job["company"]}
        /\ \A c \in DOMAIN ld.company_preferences :
              ld.company_preferences[c] =
                 IF c = job["company"]
                 THEN AdjustWeight(PyGet(pre.company_preferences, c, F_Half), success)
                 ELSE pre.company_preferences[c]

\* C7: a completed record_application_outcome(job, success) has appended one
\* entry {job, success, timestamp} to the log, adjusted the weight of every
\* required skill once per occurrence in the direction of success, adjusted
\* the preference of job.company once, left every other weight, preference
\* and log entry unchanged, and persisted the resulting state.
C7_ExactEffects ==
    \A m \in procs :
        (call[m].op = "record" /\ call[m].returned /\ pc[m] = "idle") =>
            /\ ExactEffects(call[m].pre, learning_data[m], call[m].job,
                            call[m].success, call[m].timestamp)
            /\ learning_file = DumpLearningData(learning_data[m])

\* C7 witness: a call completed for the job that lists "python" twice while
\* the store already held a weight for "sql" and a preference for "acme",
\* neither of which the job names.
C7_Witness ==
    \E m \in procs :
        /\ call[m].op = "record" /\ call[m].returned /\ pc[m] = "idle"
        /\ call[m].job["id"] = 2
        /\ "sql" \in DOMAIN call[m].pre.skill_weights
        /\ "acme" \in DOMAIN call[m].pre.company_preferences
        /\ Len(call[m].pre.successful_applications) > 0

(***************************************************************************)
(* Properties of the rate governor, checked under SpecTrack.               *)
(***************************************************************************)
WellFormed(job) == ApplicationKeys \subseteq DOMAIN job

IdsOf(applications) == {applications[n]["id"] : n \in DOMAIN applications}

\* the number of records dated day d
CountDated(applications, d) ==
    Cardinality({n \in DOMAIN applications : applications[n]["date"] = d})

\* the log a board's file holds
LogOf(b) == LoadApplications(app_files[b])

\* C2: no log holds two records with the same job id; a call whose job id is
\* already in the log returns False on whatever day it is made, and a call with
\* a new id that is under the day's ceiling returns True.
C2_NoDuplicateIds ==
    /\ \A b \in DOMAIN app_files :
          \A i, j \in DOMAIN LogOf(b) :
              LogOf(b)[i]["id"] = LogOf(b)[j]["id"] => i = j
    /\ track_ret.op = "track" /\ WellFormed(track_ret.job) =>
          LET before == LoadApplications(track_ret.before)
          IN  /\ track_ret.job["id"] \in IdsOf(before) => ~track_ret.ret
              /\ ( /\ track_ret.job["id"] \notin IdsOf(before)
                   /\ CountDated(before, track_ret.day) < env_max )
                 => track_ret.ret

\* C2 witness: a job tracked on an earlier day was offered again and rejected.
C2_Witness ==
    /\ track_ret.op = "track"
    /\ track_ret.reason = "duplicate"
    /\ ~track_ret.ret
    /\ \E n \in DOMAIN LoadApplications(track_ret.before) :
          /\ LoadApplications(track_ret.before)[n]["id"] = track_ret.job["id"]
          /\ LoadApplications(track_ret.before)[n]["date"] < track_ret.day

Min(a, b) == IF a < b THEN a ELSE b

\* C3: starting from an empty log, n calls with pairwise distinct ids made on
\* one calendar day have returned True min(n, MAX) times, the first MAX of
\* them; the call after the MAX-th returns False, and the log holds exactly
\* min(n, MAX) records, all dated that day.
C3_DailyCeiling ==
    \A b \in DOMAIN app_files :
        (same_day_run[b].valid /\ same_day_run[b].n > 0 /\ track_ret.op = "track"
            /\ track_ret.board = b) =>
            /\ same_day_run[b].trues = Min(same_day_run[b].n, env_max)
            /\ track_ret.ret = (same_day_run[b].n <= env_max)
            /\ Len(LogOf(b)) = Min(same_day_run[b].n, env_max)
            /\ CountDated(LogOf(b), same_day_run[b].day) = Len(LogOf(b))

\* C3 witness: the (MAX+1)-th call of such a day was made and rejected at
\* the ceiling.
C3_Witness ==
    \E b \in DOMAIN app_files :
        /\ same_day_run[b].valid
        /\ same_day_run[b].n = env_max + 1
        /\ track_ret.op = "track" /\ track_ret.board = b
        /\ track_ret.reason = "limit"
        /\ env_max > 1

\* C4: a call that returns True leaves the old log with exactly one record
\* appended, carrying the job's id, title, company, location and url and the
\* status 'applied'; a call that returns False leaves the file as it was.
C4_AppendOrNothing ==
    track_ret.op = "track" =>
        LET before == LoadApplications(track_ret.before)
            after == LogOf(track_ret.board)
            job == track_ret.job
        IN  IF track_ret.ret
            THEN /\ Len(after) = Len(before) + 1
                 /\ SubSeq(after, 1, Len(before)) = before
                 /\ \A k \in ApplicationKeys : after[Len(after)][k] = job[k]
                 /\ after[Len(after)]["status"] = "applied"
                 /\ after[Len(after)]["date"] \in {track_ret.day, track_ret.day + 1}
                 /\ DOMAIN after[Len(after)] = ApplicationKeys \cup {"date", "status"}
            ELSE app_files[track_ret.board] = track_ret.before

\* C4 witness: a record was appended to a log that already held records of
\* other jobs.
C4_Witness ==
    /\ track_ret.op = "track"
    /\ track_ret.ret
    /\ Len(LoadApplications(track_ret.before)) >= 2

\* C5 as stated: once the ceiling was reached on a day D, every call made on
\* a later day with a well-formed job whose id is not in the log returns True.
C5_Original ==
    (track_ret.op = "track" /\ WellFormed(track_ret.job)
        /\ (\E d \in limit_days[track_ret.board] : d < track_ret.day)
        /\ track_ret.job["id"] \notin IdsOf(LoadApplications(track_ret.before)))
    => track_ret.ret

\* C5 amended: once the ceiling was reached on a day D, a call made on a later
\* day with a well-formed job whose id is not in the log returns True whenever
\* fewer than MAX records are dated that later day, however many are dated D.
C5_LaterDayAccepted ==
    (track_ret.op = "track" /\ WellFormed(track_ret.job)
        /\ (\E d \in limit_days[track_ret.board] : d < track_ret.day)
        /\ track_ret.job["id"] \notin IdsOf(LoadApplications(track_ret.before))
        /\ CountDated(LoadApplications(track_ret.before), track_ret.day) < env_max)
    => track_ret.ret

\* C5 witness: a call was accepted on a day after one on which the ceiling
\* had rejected a call, with the log still holding that day's MAX records.
C5_Witness ==
    /\ track_ret.op = "track"
    /\ track_ret.ret
    /\ \E d \in limit_days[track_ret.board] :
          /\ d < track_ret.day
          /\ CountDated(LoadApplications(track_ret.before), d) >= env_max

\* C6: track_application never raises; a ceiling breach, a duplicate id and a
\* malformed job are all reported by returning False.
C6_NeverRaises ==
    track_ret.op = "track" =>
        /\ ~track_ret.raised
        /\ track_ret.reason \in {"limit", "duplicate", "error"} => ~track_ret.ret
        /\ ~WellFormed(track_ret.job) => ~track_ret.ret

\* C6 witness: a job without an 'id' field was offered to a board whose log
\* is not empty (the duplicate test raises KeyError) and False was returned.
C6_Witness ==
    /\ track_ret.op = "track"
    /\ "id" \notin DOMAIN track_ret.job
    /\ LoadApplications(track_ret.before) # <<>>
    /\ track_ret.reason = "error"
    /\ ~track_ret.ret /\ ~track_ret.raised

(***************************************************************************)
(* Durability and concurrency of the learning store, checked under         *)
(* SpecCrash (one process, crashes) and SpecConc (two instances).          *)
(***************************************************************************)
\* the learning state after the outcomes of `outcomes`, applied in order to
\* the state `ld`
RECURSIVE Replay(_, _)
Replay(ld, outcomes) ==
    IF outcomes = <<>> THEN ld
    ELSE Replay(OutcomeApplied(ld, Head(outcomes).job, Head(outcomes).success,
                               Head(outcomes).timestamp),
                Tail(outcomes))

LogEntry(h) == [job |-> h.job, success |-> h.success, timestamp |-> h.timestamp]

LoggedIn(ld) ==
    SeqRange(ld.successful_applications) \cup SeqRange(ld.unsuccessful_applications)

\* the outcomes of `history` that a snapshot logs, in the order they were made
LoggedOutcomes(ld) ==
    SelectSeq(history, LAMBDA h : LogEntry(h) \in LoggedIn(ld))

\* a snapshot holds the adjustments of exactly the outcomes it logs
ConsistentSnapshot(ld) == ld = Replay(DefaultLearningData, LoggedOutcomes(ld))

\* C8 as stated: after a completed call the file equals the in-memory state;
\* what is on disk is always a complete snapshot that holds the adjustments of
\* exactly the outcomes it logs; and every outcome whose call completed is in
\* it, so that a crash loses the in-flight outcome at most.
C8_Original ==
    /\ \A m \in procs :
          (call[m].op = "record" /\ call[m].returned /\ pc[m] = "idle") =>
              learning_file = DumpLearningData(learning_data[m])
    /\ learning_file.kind \in {"absent", "json"}
    /\ learning_file.kind = "json" => ConsistentSnapshot(ParseLearningData(learning_file))
    /\ \A i \in DOMAIN history :
          history[i].completed =>
              /\ learning_file.kind = "json"
              /\ LogEntry(history[i]) \in LoggedIn(ParseLearningData(learning_file))

\* C9 as stated: whatever load_learning_data found on disk was a complete
\* snapshot (or no file at all), never an empty or partially written file.
C9_Original ==
    \A m \in procs :
        call[m].op = "load" => call[m].observed.kind \in {"absent", "json"}

SerialOrders(n) ==
    {f \in [1..n -> 1..n] : \A i, j \in 1..n : f[i] = f[j] => i = j}

\* C10 as stated: once every call has returned, the persisted state is the
\* result of applying all recorded outcomes in some serial order.
C10_Original ==
    (history # <<>> /\ \A m \in procs : pc[m] = "idle") =>
        /\ learning_file.kind = "json"
        /\ \E f \in SerialOrders(Len(history)) :
              ParseLearningData(learning_file) =
                 Replay(DefaultLearningData, [i \in 1..Len(history) |-> history[f[i]]])

(***************************************************************************)
(* Persistence round trip, checked under SpecStore.                        *)
(***************************************************************************)
\* C11: save_learning_data followed by load_learning_data, with nothing
\* changed in between, leaves skill_weights and company_preferences exactly
\* as they were before the save: same keys, same values.
C11_RoundTrip ==
    \A m \in procs :
        (call[m].op = "reload" /\ call[m].after_save) =>
            /\ ~call[m].raised
            /\ learning_data[m].skill_weights = call[m].pre.skill_weights
            /\ learning_data[m].company_preferences = call[m].pre.company_preferences

\* C11 witness: a store was saved and loaded again while it held a weight the
\* clamp had set to the int 1 and a preference whose text needs sixteen
\* significant digits.
C11_Witness ==
    \E m \in procs :
        /\ call[m].op = "reload" /\ call[m].after_save
        /\ \E k \in DOMAIN call[m].pre.skill_weights :
              call[m].pre.skill_weights[k] = F_One
        /\ \E c \in DOMAIN call[m].pre.company_preferences :
              Len(WeightText(call[m].pre.company_preferences[c]).digits) >= 16

(***************************************************************************)
(* Loading a damaged file, checked under SpecScore.                        *)
(***************************************************************************)
\* C12 as stated: when the learning file exists but cannot be parsed, the
\* load does not raise; the matcher is constructed and holds the default
\* empty state, so that scoring can go on.
C12_Original ==
    \A m \in procs :
        (call[m].op = "load" /\ LoadRaises(call[m].observed)) =>
            /\ pc[m] = "idle"
            /\ learning_data[m] = DefaultLearningData

(***************************************************************************)
(* The score of one job, checked under SpecScore.                          *)
(***************************************************************************)
\* the doubles that the decimal literals 0.4, 0.2, 0.5 and 0.6 denote
PointFour == ParseNumber(NumberText(FALSE, <<4>>, 0))
PointTwo == ParseNumber(NumberText(FALSE, <<2>>, 0))
PointFive == ParseNumber(NumberText(FALSE, <<5>>, 0))
PointSix == ParseNumber(NumberText(FALSE, <<6>>, 0))

\* the value a key has in a table of the store, 0.5 if it has none
StoredOrHalf(d, key) == IF key \in DOMAIN d THEN D_OfFloat(d[key]) ELSE PointFive

\* the entries of job.required_skills that are skill names of the resume
MatchedSkills(job, resume) ==
    IF "required_skills" \notin DOMAIN job THEN <<>>
    ELSE SelectSeq(job.required_skills,
                   LAMBDA s : \E i \in DOMAIN resume.skills : resume.skills[i].skill = s)

\* the sum of the weights of a list of skills, entry by entry
RECURSIVE WeightSum(_, _)
WeightSum(d, skills) ==
    IF skills = <<>> THEN D_Zero
    ELSE D_Add(WeightSum(d, SubSeq(skills, 1, Len(skills) - 1)),
               StoredOrHalf(d, skills[Len(skills)]))

ExpectedScore(ld, job, resume) ==
    D_Add(D_Add(D_Mul(PointFour, Similarity(<<job.title, job.description>>, resume.raw_text)),
                D_Mul(PointFour, WeightSum(ld.skill_weights, MatchedSkills(job, resume)))),
          D_Mul(PointTwo, StoredOrHalf(ld.company_preferences, job.company)))

\* C13: calculate_job_score returns 0.4 * similarity + 0.4 * skillScore +
\* 0.2 * companyScore, where skillScore is the sum, not normalised, of the
\* weights of the required skills found among the resume's skill names and
\* companyScore is the preference of the job's company.
C13_WeightedSum ==
    \A m \in procs :
        call[m].op = "score" =>
            call[m].result = ExpectedScore(call[m].pre, call[m].job, call[m].resume)

\* C13 witness: a job that lists one matched skill twice was scored on a
\* store that holds a weight for the skill and a preference for the company.
C13_Witness ==
    \E m \in procs :
        /\ call[m].op = "score"
        /\ call[m].job.id = 3
        /\ "python" \in DOMAIN call[m].pre.skill_weights
        /\ "globex" \in DOMAIN call[m].pre.company_preferences
        /\ Len(MatchedSkills(call[m].job, call[m].resume)) = 2
        /\ call[m].result = ExpectedScore(call[m].pre, call[m].job, call[m].resume)

\* the skills and the companies that an outcome has been recorded for
RecordedSkills ==
    UNION { IF "required_skills" \in DOMAIN history[i].job
            THEN SeqRange(history[i].job.required_skills) ELSE {} : i \in DOMAIN history }

RecordedCompanies == {history[i].job.company : i \in DOMAIN history}

\* the weight of a recorded key, and 0.5 for a key never recorded
RecordedOrHalf(d, key, recorded) ==
    IF key \in recorded THEN D_OfFloat(d[key]) ELSE PointFive

RECURSIVE SumNewAsHalf(_, _)
SumNewAsHalf(d, skills) ==
    IF skills = <<>> THEN D_Zero
    ELSE D_Add(SumNewAsHalf(d, SubSeq(skills, 1, Len(skills) - 1)),
               RecordedOrHalf(d, skills[Len(skills)], RecordedSkills))

NeverRecorded(job, resume) ==
    (SeqRange(MatchedSkills(job, resume)) \ RecordedSkills)
        \cup ({job.company} \ RecordedCompanies)

\* C14: a score that involves a skill or a company for which no outcome was
\* ever recorded is the weighted sum in which each such skill and company
\* counts with the weight 0.5 exactly.
C14_UnseenIsHalf ==
    \A m \in procs :
        (call[m].op = "score" /\ NeverRecorded(call[m].job, call[m].resume) # {}) =>
            call[m].result =
                D_Add(D_Add(D_Mul(PointFour, Similarity(JobText(call[m].job),
                                                        call[m].resume.raw_text)),
                            D_Mul(PointFour,
                                  SumNewAsHalf(call[m].pre.skill_weights,
                                               MatchedSkills(call[m].job, call[m].resume)))),
                      D_Mul(PointTwo, RecordedOrHalf(call[m].pre.company_preferences,
                                                     call[m].job.company, RecordedCompanies)))

\* C14 witness: after outcomes for other skills and another company, a job
\* was scored whose matched skill sql and whose company were never recorded.
C14_Witness ==
    \E m \in procs :
        /\ call[m].op = "score"
        /\ history # <<>>
        /\ "python" \in RecordedSkills
        /\ NeverRecorded(call[m].job, call[m].resume) = {"sql", "acme"}

(***************************************************************************)
(* Scoring reads the store and nothing else, checked under SpecRank.       *)
(***************************************************************************)
\* C15: after calculate_job_score, rank_jobs or filter_jobs the matcher's
\* skill_weights, company_preferences and application logs are what they
\* were before the call, the learning file is untouched, and the job list
\* the caller passed holds the same job records as before.
C15_ScoringIsPure ==
    \A m \in procs :
        call[m].op \in {"score", "rank", "filter"} =>
            /\ learning_data[m] = call[m].pre
            /\ learning_file = call[m].file
            /\ call[m].op \in {"rank", "filter"} => call[m].jobs_after = call[m].jobs

\* C15 witness: two jobs were filtered on a store that holds weights and a
\* logged outcome; both came back annotated with a match_score, and the
\* caller's two records carry no such field.
C15_Witness ==
    \E m \in procs :
        /\ call[m].op = "filter"
        /\ Len(call[m].jobs) = 2
        /\ Len(call[m].result) = 2
        /\ call[m].pre.skill_weights # EmptyDict
        /\ call[m].pre.successful_applications # <<>>
        /\ \A i \in 1..2 : /\ "match_score" \in DOMAIN call[m].result[i]
                           /\ "match_score" \notin DOMAIN call[m].jobs_after[i]
        /\ learning_data[m] = call[m].pre

(***************************************************************************)
(* When a key enters the store, checked under SpecScore.                   *)
(***************************************************************************)
\* the keys one calculate_job_score call reads
SkillsRead(job, resume) == SeqRange(MatchedSkills(job, resume))

\* C16 as stated: after a key has been read by scoring, the key is present in
\* the learning state.
C16_Original ==
    \A m \in procs :
        call[m].op = "score" =>
            /\ SkillsRead(call[m].job, call[m].resume) \subseteq DOMAIN learning_data[m].skill_weights
            /\ call[m].job.company \in DOMAIN learning_data[m].company_preferences

\* C16, amended: scoring reads a missing key as 0.5 and stores nothing, so
\* the tables hold exactly the keys of recorded outcomes, in memory and in
\* the file; a key enters a table when an outcome that names it is recorded,
\* and the value it then holds is 0.5 adjusted by that outcome, never 0.5.
C16_StoredByOutcomesOnly ==
    \A m \in procs :
        /\ call[m].op = "score" =>
              /\ DOMAIN learning_data[m].skill_weights = DOMAIN call[m].pre.skill_weights
              /\ DOMAIN learning_data[m].company_preferences =
                     DOMAIN call[m].pre.company_preferences
              /\ learning_file = call[m].file
        /\ pc[m] = "idle" =>
              /\ DOMAIN learning_data[m].skill_weights = RecordedSkills
              /\ DOMAIN learning_data[m].company_preferences = RecordedCompanies
        /\ call[m].op = "record" =>
              /\ \A k \in DOMAIN learning_data[m].skill_weights \ DOMAIN call[m].pre.skill_weights :
                     learning_data[m].skill_weights[k] # F_Half
              /\ \A k \in DOMAIN learning_data[m].company_preferences
                            \ DOMAIN call[m].pre.company_preferences :
                     learning_data[m].company_preferences[k] # F_Half

\* C16 witness: on a store that holds other keys, a job was scored whose
\* matched skill sql and whose company are not in the store; they were read
\* as 0.5 and are in neither the learning state nor the file afterwards.
C16_Witness ==
    \E m \in procs :
        /\ call[m].op = "score"
        /\ call[m].pre.skill_weights # EmptyDict
        /\ "sql" \in SkillsRead(call[m].job, call[m].resume)
        /\ "sql" \notin DOMAIN learning_data[m].skill_weights
        /\ call[m].job.company \notin DOMAIN learning_data[m].company_preferences
        /\ learning_file.kind = "json"
        /\ "sql" \notin DOMAIN ParseLearningData(learning_file).skill_weights
        /\ call[m].result =
               D_Add(D_Add(D_Mul(PointFour, Similarity(JobText(call[m].job),
                                                       call[m].resume.raw_text)),
                           D_Mul(PointFour,
                                 D_Add(D_OfFloat(call[m].pre.skill_weights["python"]),
                                       PointFive))),
                     D_Mul(PointTwo, PointFive))

(***************************************************************************)
(* The order of a ranking and what a filter keeps, checked under SpecRank. *)
(***************************************************************************)
\* C17: in the list rank_jobs returns, no job has a smaller match_score than
\* the job after it.
C17_NonIncreasing ==
    \A m \in procs :
        call[m].op = "rank" =>
            \A i \in 1..(Len(call[m].result) - 1) :
                ~D_Less(call[m].result[i].match_score, call[m].result[i + 1].match_score)

\* C17 witness: two jobs were passed with the lower-scored one first, and
\* came back with the higher-scored one first.
C17_Witness ==
    \E m \in procs :
        /\ call[m].op = "rank"
        /\ Len(call[m].jobs) = 2 /\ Len(call[m].result) = 2
        /\ call[m].result[1].id = call[m].jobs[2].id
        /\ call[m].result[2].id = call[m].jobs[1].id
        /\ D_Less(call[m].result[2].match_score, call[m].result[1].match_score)

\* where the job with a given id stands in a list
PlaceOf(jobs, id) == CHOOSE i \in DOMAIN jobs : jobs[i].id = id

\* C18: two jobs that got the same score stand in the ranking in the order
\* in which they stood in the list passed to rank_jobs.
C18_Stable ==
    \A m \in procs :
        call[m].op = "rank" =>
            \A i, j \in DOMAIN call[m].jobs :
                LET a == PlaceOf(call[m].result, call[m].jobs[i].id)
                    b == PlaceOf(call[m].result, call[m].jobs[j].id)
                IN  (i < j /\ call[m].result[a].match_score = call[m].result[b].match_score)
                        => a < b

\* C18 witness: the two postings of the same job were passed, the one with
\* id 2 first; they got the same score and came back in that order.
C18_Witness ==
    \E m \in procs :
        /\ call[m].op = "rank"
        /\ Len(call[m].jobs) = 2 /\ Len(call[m].result) = 2
        /\ call[m].jobs[1].id = 2 /\ call[m].jobs[2].id = 1
        /\ call[m].result[1].match_score = call[m].result[2].match_score
        /\ call[m].result[1].id = 2 /\ call[m].result[2].id = 1

\* the threshold of a filter_jobs call: the argument passed, else 0.6
Threshold(arg) == IF arg.passed THEN arg.value ELSE PointSix

\* C19: filter_jobs returns the jobs of the ranking of the same list whose
\* match_score is at least min_score, in the order of the ranking; without
\* a min_score argument the threshold is 0.6; a score equal to the threshold
\* is kept.
C19_FilterOfRanking ==
    \A m \in procs :
        call[m].op = "filter" =>
            call[m].result =
                SelectSeq(rank_jobs(call[m].pre, call[m].jobs, call[m].resume).result,
                          LAMBDA job : ~D_Less(job.match_score, Threshold(call[m].min_score)))

\* C19 witness: a call without min_score on two jobs, one scored 0.6 exactly
\* and one scored less; only the first is returned.
C19_Witness ==
    \E m \in procs :
        /\ call[m].op = "filter"
        /\ ~call[m].min_score.passed
        /\ Len(call[m].jobs) = 2
        /\ Len(call[m].result) = 1
        /\ call[m].result[1].match_score = PointSix
        /\ \E job \in SeqRange(rank_jobs(call[m].pre, call[m].jobs, call[m].resume).result) :
               D_Less(job.match_score, PointSix)

(***************************************************************************)
(* Jobs that require no skill, checked under SpecScore.                    *)
(***************************************************************************)
NoRequiredSkills(job) ==
    "required_skills" \notin DOMAIN job \/ job.required_skills = <<>>

\* C20: the score of a job whose required_skills is empty or missing is
\* 0.4 * similarity + 0.2 * companyScore, whatever skills the resume lists
\* and whatever weights the store holds.
C20_NoSkillsNoSkillScore ==
    \A m \in procs :
        (call[m].op = "score" /\ NoRequiredSkills(call[m].job)) =>
            call[m].result =
                D_Add(D_Mul(PointFour, Similarity(JobText(call[m].job), call[m].resume.raw_text)),
                      D_Mul(PointTwo, StoredOrHalf(call[m].pre.company_preferences,
                                                   call[m].job.company)))

\* C20 witness: a job without a required_skills field was scored for a resume
\* that lists python, on a store that holds a weight for python.
C20_Witness ==
    \E m \in procs :
        /\ call[m].op = "score"
        /\ "required_skills" \notin DOMAIN call[m].job
        /\ \E i \in DOMAIN call[m].resume.skills : call[m].resume.skills[i].skill = "python"
        /\ "python" \in DOMAIN call[m].pre.skill_weights
        /\ call[m].result =
               D_Add(D_Mul(PointFour, Similarity(JobText(call[m].job), call[m].resume.raw_text)),
                     D_Mul(PointTwo, PointFive))

(***************************************************************************)
(* Inputs with a part missing, checked under SpecInputs.                   *)
(***************************************************************************)
\* a job without one of the fields the claim calls required
ScoreMalformed(job) == ~({"title", "description", "company"} \subseteq DOMAIN job)

\* C21: when the resume has no skills list, calculate_job_score treats it as
\* the empty set and returns a score without raising, for every job, also one
\* whose required_skills is not empty.
C21_Original ==
    \A m \in procs :
        (/\ call[m].op = "score"
         /\ "skills" \notin DOMAIN call[m].resume
         /\ ~ScoreMalformed(call[m].job)) =>
            /\ ~call[m].raised
            /\ call[m].result =
                   ExpectedScore(call[m].pre, call[m].job,
                                 [skills |-> <<>>, raw_text |-> call[m].resume.raw_text])

WellFormedJobs(jobs) == SelectSeq(jobs, LAMBDA job : ~ScoreMalformed(job))

\* C22: a job without title, description or company in the list does not
\* abort rank_jobs: the call returns, and every well-formed job of the list
\* is in the ranking it returns.
C22_Original ==
    \A m \in procs :
        (call[m].op = "rank" /\ "skills" \in DOMAIN call[m].resume) =>
            /\ ~call[m].raised
            /\ \A i \in DOMAIN WellFormedJobs(call[m].jobs) :
                   \E n \in DOMAIN call[m].result :
                       Without(call[m].result[n], "match_score") = WellFormedJobs(call[m].jobs)[i]

(***************************************************************************)
(* The size of a weight update, checked under SpecLearn.                   *)
(***************************************************************************)
PointOne == ParseNumber(NumberText(FALSE, <<1>>, 0))
One == ParseNumber(NumberText(FALSE, <<1>>, 1))

\* min(1, max(0, x))
Clamped(x) == IF D_Less(One, x) THEN One ELSE IF D_Less(x, D_Zero) THEN D_Zero ELSE x

\* min(1, max(0, old + 0.1)) or min(1, max(0, old - 0.1))
Stepped(old, success) ==
    Clamped(D_Add(old, IF success THEN PointOne ELSE [PointOne EXCEPT !.neg = TRUE]))

\* the stored weights after one such update, worked out once
StepOfStored ==
    {<<w, success, F_OfDouble(Stepped(D_OfFloat(w), success))>> :
        w \in StoredWeights, success \in BOOLEAN}

SteppedWeight(w, success) ==
    IF \E p \in StepOfStored : p[1] = w /\ p[2] = success
    THEN (CHOOSE p \in StepOfStored : p[1] = w /\ p[2] = success)[3]
    ELSE F_OfDouble(Stepped(D_OfFloat(w), success))

RECURSIVE SteppedTimes(_, _, _)
SteppedTimes(old, success, n) ==
    IF n = 0 THEN old ELSE SteppedTimes(SteppedWeight(old, success), success, n - 1)

\* the weight a key has before an update: its value, 0.5 for a new key
HalfStored == F_OfDouble(PointFive)
OldWeight(d, key) == IF key \in DOMAIN d THEN d[key] ELSE HalfStored

\* how often the job lists the skill: one update per listing
ListedTimes(job, skill) ==
    LET skills == IF "required_skills" \in DOMAIN job THEN job.required_skills ELSE <<>>
    IN  Cardinality({i \in DOMAIN skills : skills[i] = skill})

RECURSIVE SkillUpdates(_, _)
SkillUpdates(outcomes, skill) ==
    IF outcomes = <<>> THEN 0
    ELSE ListedTimes(Head(outcomes).job, skill) + SkillUpdates(Tail(outcomes), skill)

\* the outcomes recorded so far are all successes, or all failures
SameFlag(outcomes, success) == \A i \in DOMAIN outcomes : outcomes[i].success = success

\* every update made by the last record_application_outcome call set the
\* weight to the clamped sum of its old value (0.5 for a new key) and +-0.1
EachUpdateIsAStep ==
    \A m \in procs :
        call[m].op = "record" =>
            /\ learning_data[m].company_preferences[call[m].job.company] =
                   SteppedWeight(OldWeight(call[m].pre.company_preferences,
                                           call[m].job.company),
                                 call[m].success)
            /\ \A skill \in {"python", "sql"} :
                   ListedTimes(call[m].job, skill) > 0 =>
                       learning_data[m].skill_weights[skill] =
                           SteppedTimes(OldWeight(call[m].pre.skill_weights, skill),
                                        call[m].success, ListedTimes(call[m].job, skill))

\* the keys whose updates so far were n >= 1 updates with the same flag hold
\* the value after(flag, n)
RunsGive(after(_, _)) ==
    \A m \in procs : \A success \in BOOLEAN :
        /\ \A company \in DOMAIN learning_data[m].company_preferences :
               LET run == SelectSeq(history, LAMBDA h : h.job.company = company)
               IN  SameFlag(run, success) =>
                       D_OfFloat(learning_data[m].company_preferences[company]) =
                           after(success, Len(run))
        /\ \A skill \in DOMAIN learning_data[m].skill_weights :
               LET run == SelectSeq(history, LAMBDA h : ListedTimes(h.job, skill) > 0)
               IN  SameFlag(run, success) =>
                       D_OfFloat(learning_data[m].skill_weights[skill]) =
                           after(success, SkillUpdates(run, skill))

\* min(1, 0.5 + 0.1 * n) and max(0, 0.5 - 0.1 * n) as decimal numbers
TenthsUp == <<ParseNumber(NumberText(FALSE, <<6>>, 0)), ParseNumber(NumberText(FALSE, <<7>>, 0)),
              ParseNumber(NumberText(FALSE, <<8>>, 0)), ParseNumber(NumberText(FALSE, <<9>>, 0))>>
TenthsDown == <<ParseNumber(NumberText(FALSE, <<4>>, 0)), ParseNumber(NumberText(FALSE, <<3>>, 0)),
                ParseNumber(NumberText(FALSE, <<2>>, 0)), ParseNumber(NumberText(FALSE, <<1>>, 0))>>
AfterExact(success, n) ==
    IF n >= 5 THEN (IF success THEN One ELSE D_Zero)
    ELSE IF success THEN TenthsUp[n] ELSE TenthsDown[n]

\* C25 as stated: each update sets the weight to min(1, max(0, old +- 0.1)),
\* old being 0.5 for a new key; n successes in a row on a new key give
\* min(1, 0.5 + 0.1 n), which is 1.0 from the fifth on; n failures in a row
\* give max(0, 0.5 - 0.1 n), which is 0.0 from the fifth on.
C25_Original == EachUpdateIsAStep /\ RunsGive(AfterExact)

\* the values float addition gives: 0.5 + 0.1 + ... + 0.1 and 0.5 - 0.1 - ... - 0.1
SumsUp == <<ParseNumber(NumberText(FALSE, <<6>>, 0)), ParseNumber(NumberText(FALSE, <<7>>, 0)),
            ParseNumber(NumberText(FALSE, <<7, 9, 9, 9, 9, 9, 9, 9, 9, 9, 9, 9, 9, 9, 9, 9>>, 0)),
            ParseNumber(NumberText(FALSE, <<8, 9, 9, 9, 9, 9, 9, 9, 9, 9, 9, 9, 9, 9, 9, 9>>, 0)),
            ParseNumber(NumberText(FALSE, <<9, 9, 9, 9, 9, 9, 9, 9, 9, 9, 9, 9, 9, 9, 9, 9>>, 0))>>
SumsDown == <<ParseNumber(NumberText(FALSE, <<4>>, 0)),
              ParseNumber(NumberText(FALSE, <<3, 0, 0, 0, 0, 0, 0, 0, 0, 0, 0, 0, 0, 0, 0, 0, 4>>, 0)),
              ParseNumber(NumberText(FALSE, <<2, 0, 0, 0, 0, 0, 0, 0, 0, 0, 0, 0, 0, 0, 0, 0, 4>>, 0)),
              ParseNumber(NumberText(FALSE, <<1, 0, 0, 0, 0, 0, 0, 0, 0, 0, 0, 0, 0, 0, 0, 0, 3>>, 0)),
              ParseNumber(NumberText(FALSE, <<2, 7, 7, 5, 5, 5, 7, 5, 6, 1, 5, 6, 2, 8, 9, 1, 4>>, -16))>>
AfterFloat(success, n) ==
    IF n >= 6 THEN (IF success THEN One ELSE D_Zero)
    ELSE IF success THEN SumsUp[n] ELSE SumsDown[n]

\* C25, amended: each update sets the weight to min(1, max(0, old +- 0.1))
\* in floating point, old being 0.5 for a new key; n successes in a row on a
\* new key give 0.6, 0.7, 0.7999999999999999, 0.8999999999999999,
\* 0.9999999999999999 and 1.0 from the sixth on; n failures in a row give 0.4,
\* 0.30000000000000004, 0.20000000000000004, 0.10000000000000003,
\* 2.7755575615628914e-17 and 0.0 from the sixth on.
C25_FloatSteps == EachUpdateIsAStep /\ RunsGive(AfterFloat)

\* C25 witness: the sixth success in a row for a company took its preference
\* from just below 1 to 1.0, and python, updated more than six times, is at
\* 1.0 as well.
C25_Witness ==
    \E m \in procs :
        /\ Len(history) = 6
        /\ SameFlag(history, TRUE)
        /\ \A i \in DOMAIN history : history[i].job.company = "acme"
        /\ D_OfFloat(call[m].pre.company_preferences["acme"]) = SumsUp[5]
        /\ D_OfFloat(learning_data[m].company_preferences["acme"]) = One
        /\ SkillUpdates(history, "python") >= 6
        /\ D_OfFloat(learning_data[m].skill_weights["python"]) = One

(***************************************************************************)
(* Scores above 1, checked under SpecUncapped.                             *)
(***************************************************************************)
\* the required skills of the job that the resume lists, as a set
MatchedNames(job, resume) ==
    {job.required_skills[i] : i \in DOMAIN job.required_skills}
        \cap {resume.skills[i].skill : i \in DOMAIN resume.skills}

\* three or more distinct required skills match and each has weight 1.0
ThreeAtOne(ld, job, resume) ==
    /\ "required_skills" \in DOMAIN job
    /\ Cardinality(MatchedNames(job, resume)) >= 3
    /\ \A skill \in MatchedNames(job, resume) :
           StoredOrHalf(ld.skill_weights, skill) = One

\* C26: the score is not capped at 1.0: calculate_job_score returns, and
\* rank_jobs stores as match_score, the weighted sum itself, also when the sum
\* is above 1.0; a job with three matched skills at weight 1.0 each gets a
\* score above 1.0.
C26_Uncapped ==
    \A m \in procs :
        /\ call[m].op = "score" =>
               /\ call[m].result = ExpectedScore(call[m].pre, call[m].job, call[m].resume)
               /\ ThreeAtOne(call[m].pre, call[m].job, call[m].resume) =>
                      D_Less(One, call[m].result)
        /\ call[m].op = "rank" =>
               \A n \in DOMAIN call[m].result :
                   /\ call[m].result[n].match_score =
                          ExpectedScore(call[m].pre, call[m].result[n], call[m].resume)
                   /\ ThreeAtOne(call[m].pre, call[m].result[n], call[m].resume) =>
                          D_Less(One, call[m].result[n].match_score)

\* C26 witness: rank_jobs put a job with three matched skills, each at weight
\* 1.0, first with a match_score above 1.0, ahead of a job scored below 1.0.
C26_Witness ==
    \E m \in procs :
        /\ call[m].op = "rank"
        /\ Len(call[m].result) = 2
        /\ ThreeAtOne(call[m].pre, call[m].result[1], call[m].resume)
        /\ D_Less(One, call[m].result[1].match_score)
        /\ D_Less(call[m].result[2].match_score, One)

(***************************************************************************)
(* Feedback and the score, checked under SpecFeedback.                     *)
(***************************************************************************)
\* C27: feedback is monotone for the same job and resume: the score
\* calculate_job_score returns after record_application_outcome(job, True) is
\* at least the score of that job and resume before the call, and after
\* record_application_outcome(job, False) it is at most that score.
C27_Monotone ==
    [][\A m \in procs :
          (/\ call[m].op = "record"
           /\ call'[m].op = "score"
           /\ call'[m].job = call[m].job) =>
              LET before == calculate_job_score(call[m].pre, call[m].job,
                                                call'[m].resume).score
              IN  IF call[m].success
                  THEN D_Geq(call'[m].result, before)
                  ELSE D_Geq(before, call'[m].result)]_vars

\* C27 witness: a job was scored right after its first outcome, an accepted
\* application, was recorded, and its score is now above what it was on the
\* empty store.
C27_Witness ==
    \E m \in procs :
        /\ call[m].op = "score"
        /\ Len(history) = 1
        /\ history[1].job = call[m].job
        /\ history[1].success
        /\ D_Less(calculate_job_score(DefaultLearningData, call[m].job,
                                      call[m].resume).score,
                  call[m].result)

(***************************************************************************)
(* Ranking a ranking, checked under SpecRerank.                            *)
(***************************************************************************)
\* xs is a permutation of ys in which every job has gained match_score and
\* kept its other fields
RankingOf(xs, ys) ==
    /\ Len(xs) = Len(ys)
    /\ \E p \in [DOMAIN xs -> DOMAIN ys] :
           /\ \A i, j \in DOMAIN xs : p[i] = p[j] => i = j
           /\ \A i \in DOMAIN xs :
                  /\ DOMAIN xs[i] = (DOMAIN ys[p[i]]) \cup {"match_score"}
                  /\ \A k \in (DOMAIN xs[i]) \ {"match_score"} : xs[i][k] = ys[p[i]][k]

\* C28: ranking is idempotent: rank_jobs on a list that rank_jobs returned,
\* with the learning state unchanged, returns that list (same jobs, same
\* order, same match_score); filter_jobs on the ranking returns what
\* filter_jobs returns on the jobs that were ranked; and what rank_jobs
\* returns is a permutation of its input with only match_score added.
C28_Idempotent ==
    [][\A m \in procs :
          /\ call'[m].op = "rank" => RankingOf(call'[m].result, call'[m].jobs)
          /\ (/\ call[m].op = "rank"
              /\ call'[m].op = "rank"
              /\ call'[m].jobs = call[m].result
              /\ call'[m].resume = call[m].resume) =>
                 call'[m].result = call[m].result
          /\ (/\ call[m].op = "rank"
              /\ call'[m].op = "filter"
              /\ call'[m].jobs = call[m].result
              /\ call'[m].resume = call[m].resume) =>
                 call'[m].result =
                     filter_jobs(call[m].pre, call[m].jobs, call[m].resume,
                                 call'[m].min_score).result]_vars

\* C28 witness: a ranking of two jobs with equal scores, job 2 ahead of job 1,
\* was ranked again and came back as it was.
C28_Witness ==
    \E m \in procs :
        /\ call[m].op = "rank"
        /\ Len(call[m].jobs) = 2
        /\ "match_score" \in DOMAIN call[m].jobs[1]
        /\ call[m].jobs[1].match_score = call[m].jobs[2].match_score
        /\ call[m].jobs[1].id = 2
        /\ call[m].result = call[m].jobs

(***************************************************************************)
(* Reading the application log, checked under SpecApplications.            *)
(***************************************************************************)
\* the records of the log dated on or after the cutoff day, in log order
LoggedSince(log, cutoff) == SelectSeq(log, LAMBDA app : app["date"] >= cutoff)

\* C24: get_applications() called after a track_application(job) that
\* returned True returns a list with a record of that job's id, title and
\* company; get_applications(days=n) returns exactly the logged records dated
\* on or after today minus n days, in the order of the log.
C24_LogRead ==
    [][track_ret'.op = "get" =>
          /\ (/\ track_ret.op = "track"
              /\ track_ret.ret
              /\ track_ret.board = track_ret'.board
              /\ ~track_ret'.days.passed) =>
                 \E n \in DOMAIN track_ret'.result :
                     /\ track_ret'.result[n]["id"] = track_ret.job["id"]
                     /\ track_ret'.result[n]["title"] = track_ret.job["title"]
                     /\ track_ret'.result[n]["company"] = track_ret.job["company"]
          /\ track_ret'.days.passed =>
                 track_ret'.result =
                     LoggedSince(LoadApplications(app_files[track_ret'.board]),
                                 track_ret'.day - track_ret'.days.value)]_vars

\* C24 witness: on day 2 the log holds a record of day 0 and a record of day
\* 1, and get_applications(days=1) returned the record of day 1 alone.
C24_Witness ==
    /\ track_ret.op = "get"
    /\ track_ret.days = [passed |-> TRUE, value |-> 1]
    /\ today = 2
    /\ Len(LoadApplications(app_files[track_ret.board])) = 2
    /\ LoadApplications(app_files[track_ret.board])[1]["date"] = 0
    /\ LoadApplications(app_files[track_ret.board])[2]["date"] = 1
    /\ track_ret.result = <<LoadApplications(app_files[track_ret.board])[2]>>

(***************************************************************************)
(* Several job-board classes, checked under SpecBoards.                    *)
(***************************************************************************)
DatedOn(log, day) == Cardinality({n \in DOMAIN log : log[n]["date"] = day})

\* the last track_application call was decided by the log of its own board
\* class: accepted, its record is the newest of that log; rejected as a
\* duplicate, that log holds the id; rejected for the ceiling, that log holds
\* MAX_APPLICATIONS_PER_DAY records of the day
DecidedByOwnLog(ret, files) ==
    ret.op = "track" =>
        LET own == LoadApplications(files[ret.board])
        IN  /\ ret.ret =>
                   /\ own # <<>>
                   /\ own[Len(own)]["id"] = ret.job["id"]
                   /\ \A n \in 1..(Len(own) - 1) : own[n]["id"] # ret.job["id"]
                   /\ DatedOn(SubSeq(own, 1, Len(own) - 1), ret.day) < env_max
            /\ ret.reason = "duplicate" =>
                   \E n \in DOMAIN own : own[n]["id"] = ret.job["id"]
            /\ ret.reason = "limit" => DatedOn(own, ret.day) >= env_max

\* C29: the ceiling and the duplicate check are kept per job-board class,
\* each class with its own log file: a track_application call on one class
\* leaves the logs of the other classes as they are and is decided by the log
\* of its own class alone, so on one calendar day up to MAX_APPLICATIONS_PER_DAY
\* applications are accepted per class, k times that for k classes.
C29_PerBoardClass ==
    [][/\ track_ret'.op = "track" =>
              \A b \in Boards \ {track_ret'.board} : app_files'[b] = app_files[b]
       /\ DecidedByOwnLog(track_ret', app_files')
       /\ \A b \in Boards, day \in 0..MaxDay :
              DatedOn(LoadApplications(app_files'[b]), day) <= env_max]_vars

\* C29 witness: with a ceiling of 2, both classes hold two records of today,
\* for the same two job ids, so 2 * MAX applications were accepted on one day;
\* the last call was an accepted one.
C29_Witness ==
    /\ env_max = 2
    /\ track_ret.op = "track"
    /\ track_ret.ret
    /\ \A b \in Boards :
           /\ DatedOn(LoadApplications(app_files[b]), today) = 2
           /\ {LoadApplications(app_files[b])[n]["id"] :
                   n \in DOMAIN LoadApplications(app_files[b])} = {1, 2}

(***************************************************************************)
(* The search-and-apply workflow, checked under SpecAgent.                 *)
(***************************************************************************)
Applies == {i \in DOMAIN agent.trace : agent.trace[i].op = "apply"}

\* the governor has accepted the job on the board: track_application has
\* put its record into the application log of the board's class
GovernorAccepted(board, id) ==
    \E n \in DOMAIN LoadApplications(app_files[job_boards[board]]) :
        LoadApplications(app_files[job_boards[board]])[n]["id"] = id

\* C23: the rate governor gates the apply step of the workflow: every
\* apply_for_job call is made on a job the governor has accepted, so no more
\* than MAX_APPLICATIONS_PER_DAY applications are submitted on one day and no
\* job id is submitted twice.
C23_Original ==
    /\ \A i \in Applies :
           GovernorAccepted(agent.trace[i].board, agent.trace[i].job)
    /\ \A day \in 0..MaxDay :
           Cardinality({i \in Applies : /\ agent.trace[i].day = day
                                        /\ agent.trace[i].success}) <= env_max
    /\ \A i, j \in Applies :
           (/\ agent.trace[i].job = agent.trace[j].job
            /\ agent.trace[i].success
            /\ agent.trace[j].success) => i = j

\* the calls that followed the search at place i of the trace, up to the next
\* search
RECURSIVE CallsAfter(_, _)
CallsAfter(trace, i) ==
    IF i >= Len(trace) \/ trace[i + 1].op = "search" THEN <<>>
    ELSE <<trace[i + 1]>> \o CallsAfter(trace, i + 1)

JobsApplied(calls) ==
    LET applied == SelectSeq(calls, LAMBDA c : c.op = "apply")
    IN  [n \in DOMAIN applied |-> applied[n].job]

\* C30: every job for which apply_for_job returned gets exactly one
\* record_application_outcome call, with the flag returned, before the next
\* job is attempted; an exception in apply_for_job skips that job alone and an
\* exception while a board is processed skips that board alone: when the
\* method returns, every board was searched, in order, and every job that
\* passed the filter of a board was applied for, in order.
C30_OutcomesAndSkips ==
    /\ \A i \in DOMAIN agent.trace :
           /\ (agent.trace[i].op = "apply" /\ ~agent.trace[i].raised) =>
                  /\ i < Len(agent.trace)
                  /\ agent.trace[i + 1] = [op |-> "record", job |-> agent.trace[i].job,
                                            success |-> agent.trace[i].success]
           /\ agent.trace[i].op = "record" =>
                  /\ i > 1
                  /\ agent.trace[i - 1].op = "apply"
                  /\ ~agent.trace[i - 1].raised
    /\ Len(SelectSeq(agent.trace, LAMBDA c : c.op = "record")) = Len(history)
    /\ agent.pc = "done" =>
           /\ LET searches == SelectSeq(agent.trace, LAMBDA c : c.op = "search")
              IN  /\ Len(searches) = Len(job_boards)
                  /\ \A b \in DOMAIN searches : searches[b].board = b
           /\ \A i \in DOMAIN agent.trace :
                  (agent.trace[i].op = "search" /\ ~agent.trace[i].raised) =>
                      JobsApplied(CallsAfter(agent.trace, i)) = agent.trace[i].found

\* C30 witness: the method has returned; the search of the first board
\* raised; on the second board apply_for_job raised for the first of two jobs
\* and returned False for the second, whose outcome was recorded; the third
\* board was searched as well.
C30_Witness ==
    /\ agent.pc = "done"
    /\ Len(agent.trace) = 6
    /\ agent.trace[1] = [op |-> "search", board |-> 1, raised |-> TRUE]
    /\ agent.trace[2].op = "search"
    /\ ~agent.trace[2].raised
    /\ Len(agent.trace[2].found) = 2
    /\ agent.trace[3].op = "apply"
    /\ agent.trace[3].raised
    /\ agent.trace[4].op = "apply"
    /\ ~agent.trace[4].raised
    /\ ~agent.trace[4].success
    /\ agent.trace[5] = [op |-> "record", job |-> agent.trace[4].job, success |-> FALSE]
    /\ agent.trace[6].op = "search"
    /\ agent.trace[6].board = 3

====
